---- MODULE Spec2Model ----
(***************************************************************************)
(* Model of the SOW template-selection engine                              *)
(* (src/mcp/tools/dynamic_template_selector.py, DynamicTemplateSelector).  *)
(*                                                                         *)
(* Python values are represented as follows.                               *)
(*   - A str is a sequence of one-character strings, so that lower(),      *)
(*     upper(), strip() and the "in" substring test are computed.          *)
(*   - A value stored in a project-data dict is Str(chars) or PyNone.      *)
(*   - A project-data dict is a function whose DOMAIN is the set of keys   *)
(*     present; a missing key is a key outside the DOMAIN.                 *)
(*   - Canonical tokens returned by the normalizers are TLA+ strings; the  *)
(*     Python None returned by _normalize_deck_type is the token NoDeck.   *)
(*   - An exception leaving a function is the token AttributeError         *)
(*     (normalizers) or a result record with outcome "raised".             *)
(***************************************************************************)
EXTENDS Integers, Sequences, FiniteSets, TLC

VARIABLES
    template_mapping,   \* self.template_mapping: lookup table, key 4-tuple -> <<id, name, description>>
    template_metadata,  \* self.template_metadata: catalog, template id -> applicability record
    project_data,       \* the project-data dict the calls are made with
    op,                 \* the last method called on the selector ("new" before any call)
    template_id,        \* the template_id argument of the last validate_template_compatibility call
    filters,            \* the two filter arguments of the last get_available_templates call
    result,             \* what the last call returned (or that it raised)
    first_selection,    \* history: what the first select_template call returned (or that it raised)
    workflow,           \* process_takeoff_submission: its position, its result dict and its locals
    db,                 \* the records the persistence layer holds
    request,            \* the HTTP request the API server is handling or has handled last
    disk                \* the names of the files in the three data directories

vars == <<template_mapping, template_metadata, project_data, op, template_id, filters, result,
          first_selection, workflow, db, request, disk>>

----------------------------------------------------------------------------
(* Python str primitives *)

Str(chars) == [tag |-> "str", val |-> chars]
PyNone == [tag |-> "None"]
EmptyStr == Str(<<>>)
EmptyDict == <<>>

NoDeck == "None"
AttributeError == "AttributeError"

Uppers == <<"A","B","C","D","E","F","G","H","I","J","K","L","M",
            "N","O","P","Q","R","S","T","U","V","W","X","Y","Z">>
Lowers == <<"a","b","c","d","e","f","g","h","i","j","k","l","m",
            "n","o","p","q","r","s","t","u","v","w","x","y","z">>
Whitespace == {" ", "\t", "\n"}

LowerTable == [c \in {Uppers[i] : i \in DOMAIN Uppers} |->
                  Lowers[CHOOSE i \in DOMAIN Uppers : Uppers[i] = c]]
UpperTable == [c \in {Lowers[i] : i \in DOMAIN Lowers} |->
                  Uppers[CHOOSE i \in DOMAIN Lowers : Lowers[i] = c]]

LowerChar(c) == IF c \in DOMAIN LowerTable THEN LowerTable[c] ELSE c
UpperChar(c) == IF c \in DOMAIN UpperTable THEN UpperTable[c] ELSE c

lower(s) == [i \in DOMAIN s |-> LowerChar(s[i])]
upper(s) == [i \in DOMAIN s |-> UpperChar(s[i])]

strip(s) ==
    LET keep == {i \in DOMAIN s : s[i] \notin Whitespace}
    IN  IF keep = {} THEN <<>>
        ELSE LET first == CHOOSE i \in keep : \A j \in keep : i <= j
                 last  == CHOOSE i \in keep : \A j \in keep : j <= i
             IN  SubSeq(s, first, last)

\* Python's  kw in s  for two strs
Contains(s, sub) ==
    \E i \in 0..(Len(s) - Len(sub)) : \A j \in 1..Len(sub) : s[i + j] = sub[j]

\* Python's  dict.get(key, default)
Get(d, key, default) == IF key \in DOMAIN d THEN d[key] ELSE default

\* Python's truth value of a dict value: None and "" are falsy
Truthy(v) == v.tag = "str" /\ v.val # <<>>

----------------------------------------------------------------------------
(* The string literals the normalizers search for *)

kw == [
    recover     |-> <<"r","e","c","o","v","e","r">>,
    re_cover    |-> <<"r","e","-","c","o","v","e","r">>,
    tearoff     |-> <<"t","e","a","r","o","f","f">>,
    tear_off    |-> <<"t","e","a","r","-","o","f","f">>,
    replacement |-> <<"r","e","p","l","a","c","e","m","e","n","t">>,
    FLEECE      |-> <<"F","L","E","E","C","E">>,
    FLEECEBACK  |-> <<"F","L","E","E","C","E","B","A","C","K">>,
    TPO         |-> <<"T","P","O">>,
    EPDM        |-> <<"E","P","D","M">>,
    PVC         |-> <<"P","V","C">>,
    mechanical  |-> <<"m","e","c","h","a","n","i","c","a","l">>,
    attached    |-> <<"a","t","t","a","c","h","e","d">>,
    adhered     |-> <<"a","d","h","e","r","e","d">>,
    fully       |-> <<"f","u","l","l","y">>,
    rhino       |-> <<"r","h","i","n","o">>,
    induction   |-> <<"i","n","d","u","c","t","i","o","n">>,
    ballasted   |-> <<"b","a","l","l","a","s","t","e","d">>,
    steel       |-> <<"s","t","e","e","l">>,
    concrete    |-> <<"c","o","n","c","r","e","t","e">>,
    lightweight |-> <<"l","i","g","h","t","w","e","i","g","h","t">>,
    lwc         |-> <<"l","w","c">>,
    gypsum      |-> <<"g","y","p","s","u","m">>,
    wood        |-> <<"w","o","o","d">>,
    standing    |-> <<"s","t","a","n","d","i","n","g">>,
    seam        |-> <<"s","e","a","m">> ]

----------------------------------------------------------------------------
(* The four normalizers *)

_normalize_work_type(v) ==
    IF v.tag # "str" THEN AttributeError      \* None has no .lower()
    ELSE LET work_type == strip(lower(v.val))
         IN  IF Contains(work_type, kw.recover) \/ Contains(work_type, kw.re_cover)
             THEN "recover"
             ELSE IF \/ Contains(work_type, kw.tearoff)
                     \/ Contains(work_type, kw.tear_off)
                     \/ Contains(work_type, kw.replacement)
             THEN "tearoff"
             ELSE "recover"

\* Mutant: the TPO check comes before the fleece check.
_normalize_membrane_type_tpo_first(v) ==
    IF v.tag # "str" THEN AttributeError
    ELSE LET membrane_type == strip(upper(v.val))
         IN  IF Contains(membrane_type, kw.TPO) THEN "TPO"
             ELSE IF Contains(membrane_type, kw.FLEECE) \/ Contains(membrane_type, kw.FLEECEBACK)
             THEN "TPO_fleece"
             ELSE IF Contains(membrane_type, kw.EPDM) THEN "EPDM"
             ELSE IF Contains(membrane_type, kw.PVC) THEN "PVC"
             ELSE "TPO"

\* Lines 177-189.
_normalize_membrane_type(v) ==
    IF v.tag # "str" THEN AttributeError      \* None has no .upper()
    ELSE LET membrane_type == strip(upper(v.val))
         IN  IF Contains(membrane_type, kw.FLEECE) \/ Contains(membrane_type, kw.FLEECEBACK)
             THEN "TPO_fleece"
             ELSE IF Contains(membrane_type, kw.TPO) THEN "TPO"
             ELSE IF Contains(membrane_type, kw.EPDM) THEN "EPDM"
             ELSE IF Contains(membrane_type, kw.PVC) THEN "PVC"
             ELSE "TPO"

\* Mutant: the adhered/fully check comes before the mechanical/attached check.
_normalize_attachment_method_adhered_first(v) ==
    IF v.tag # "str" THEN AttributeError
    ELSE LET fastening_pattern == strip(lower(v.val))
         IN  IF Contains(fastening_pattern, kw.adhered) \/ Contains(fastening_pattern, kw.fully)
             THEN "fully_adhered"
             ELSE IF Contains(fastening_pattern, kw.mechanical) \/ Contains(fastening_pattern, kw.attached)
             THEN "mechanically_attached"
             ELSE IF Contains(fastening_pattern, kw.rhino) \/ Contains(fastening_pattern, kw.induction)
             THEN "rhino_bond"
             ELSE IF Contains(fastening_pattern, kw.ballasted) THEN "ballasted"
             ELSE "mechanically_attached"

\* Lines 191-203.
_normalize_attachment_method(v) ==
    IF v.tag # "str" THEN AttributeError      \* None has no .lower()
    ELSE LET fastening_pattern == strip(lower(v.val))
         IN  IF Contains(fastening_pattern, kw.mechanical) \/ Contains(fastening_pattern, kw.attached)
             THEN "mechanically_attached"
             ELSE IF Contains(fastening_pattern, kw.adhered) \/ Contains(fastening_pattern, kw.fully)
             THEN "fully_adhered"
             ELSE IF Contains(fastening_pattern, kw.rhino) \/ Contains(fastening_pattern, kw.induction)
             THEN "rhino_bond"
             ELSE IF Contains(fastening_pattern, kw.ballasted) THEN "ballasted"
             ELSE "mechanically_attached"


\* Mutant: a text that matches no keyword is taken for steel.
_normalize_deck_type_default_steel(v) ==
    IF ~Truthy(v) THEN NoDeck
    ELSE LET deck_type == strip(lower(v.val))
         IN  IF Contains(deck_type, kw.concrete)
             THEN IF Contains(deck_type, kw.lightweight) \/ Contains(deck_type, kw.lwc)
                  THEN "lightweight_concrete"
                  ELSE "concrete"
             ELSE IF Contains(deck_type, kw.gypsum) THEN "gypsum"
             ELSE IF Contains(deck_type, kw.wood) THEN "wood"
             ELSE IF Contains(deck_type, kw.standing) /\ Contains(deck_type, kw.seam)
             THEN "structural_standing_seam"
             ELSE "steel"

_normalize_deck_type(v) ==
    IF ~Truthy(v) THEN NoDeck                 \* if not deck_type: return None
    ELSE LET deck_type == strip(lower(v.val))
         IN  IF Contains(deck_type, kw.steel) THEN "steel"
             ELSE IF Contains(deck_type, kw.concrete)
             THEN IF Contains(deck_type, kw.lightweight) \/ Contains(deck_type, kw.lwc)
                  THEN "lightweight_concrete"
                  ELSE "concrete"
             ELSE IF Contains(deck_type, kw.gypsum) THEN "gypsum"
             ELSE IF Contains(deck_type, kw.wood) THEN "wood"
             ELSE IF Contains(deck_type, kw.standing) /\ Contains(deck_type, kw.seam)
             THEN "structural_standing_seam"
             ELSE NoDeck

----------------------------------------------------------------------------
(* The lookup table and the catalog built by __init__ *)

T2Name == "T2-Recover-TPO(MA)-cvr-bd-BUR-lwc-steel"

MappingEntries == {
    <<<<"recover", "TPO", "mechanically_attached", "steel">>,
      <<"T2", T2Name, "TPO recover over BUR on lightweight concrete and steel deck">>>>,
    <<<<"recover", "TPO", "mechanically_attached", "concrete">>,
      <<"T2", T2Name, "TPO recover over existing membrane on concrete">>>>,
    <<<<"recover", "TPO_fleece", "mechanically_attached", "steel">>,
      <<"T4", "T4-Recover-TPOfleece(MA)-BUR-lwc-steel",
        "TPO fleeceback recover over BUR on steel (Note: Not for Prologis)">>>>,
    <<<<"recover", "TPO", "rhino_bond", "steel">>,
      <<"T5", "T5-Recover-TPO(Rhino)-iso-EPS-flute-fill-SSR",
        "TPO with Rhino Bond over structural standing seam roof">>>>,
    <<<<"tearoff", "TPO", "mechanically_attached", "steel">>,
      <<"T6", "T6-Tearoff-TPO(MA)-insul-steel",
        "TPO tearoff and replacement with insulation on steel deck">>>>,
    <<<<"tearoff", "TPO", "mechanically_attached", "lightweight_concrete">>,
      <<"T7", "T7-Tearoff-TPO(MA)-insul-lwc-steel",
        "TPO tearoff over lightweight concrete on steel deck">>>>,
    <<<<"tearoff", "TPO", "fully_adhered", "gypsum">>,
      <<"T8", "T8-Tearoff-TPO(adhered)-insul(adhered)-gypsum",
        "Fully adhered TPO tearoff and replacement on gypsum deck">>>>,
    <<<<"recover", "TPO", "mechanically_attached", NoDeck>>,
      <<"T2", T2Name, "Standard TPO recover (deck type to be determined)">>>>,
    <<<<"tearoff", "TPO", "mechanically_attached", NoDeck>>,
      <<"T6", "T6-Tearoff-TPO(MA)-insul-steel",
        "Standard TPO tearoff (deck type to be determined)">>>> }

\* Mutant: the Rhino Bond entry points at an id the catalog does not hold.
InitialTemplateMapping_id_not_in_catalog ==
    [k \in {e[1] : e \in MappingEntries} |->
        IF k = <<"recover", "TPO", "rhino_bond", "steel">>
        THEN <<"T3", "T3-Recover-TPO(Rhino)-iso-EPS-flute-fill-SSR",
               "TPO with Rhino Bond over structural standing seam roof">>
        ELSE (CHOOSE e \in MappingEntries : e[1] = k)[2]]

\* Mutant: the fleeceback entry names T2, a template for plain TPO.
InitialTemplateMapping_fleece_names_T2 ==
    [k \in {e[1] : e \in MappingEntries} |->
        IF k = <<"recover", "TPO_fleece", "mechanically_attached", "steel">>
        THEN <<"T2", T2Name, "TPO fleeceback recover over BUR on steel (Note: Not for Prologis)">>
        ELSE (CHOOSE e \in MappingEntries : e[1] = k)[2]]

\* Lines 19-64: the dict built from the entries.
InitialTemplateMapping ==
    [k \in {e[1] : e \in MappingEntries} |->
        (CHOOSE e \in MappingEntries : e[1] = k)[2]]

InitialTemplateMetadata ==
    [ T2 |-> [ work_type |-> "recover",
               membrane_types |-> <<"TPO">>,
               attachment_methods |-> <<"mechanically_attached">>,
               deck_types |-> <<"steel", "concrete", "lightweight_concrete">>,
               sections |-> <<"project_overview", "existing_conditions", "scope_of_work",
                              "materials", "installation", "fastening_requirements",
                              "flashing_details", "warranty">>,
               complexity |-> "standard",
               estimated_duration |-> "5-7 days per 10,000 sf" ],
      T4 |-> [ work_type |-> "recover",
               membrane_types |-> <<"TPO_fleece">>,
               attachment_methods |-> <<"mechanically_attached">>,
               deck_types |-> <<"steel">>,
               sections |-> <<"project_overview", "scope_of_work", "materials",
                              "installation", "fleeceback_requirements">>,
               complexity |-> "standard",
               estimated_duration |-> "4-6 days per 10,000 sf",
               restrictions |-> <<"Not approved for Prologis projects">> ],
      T5 |-> [ work_type |-> "recover",
               membrane_types |-> <<"TPO">>,
               attachment_methods |-> <<"rhino_bond", "induction_welded">>,
               deck_types |-> <<"structural_standing_seam">>,
               sections |-> <<"project_overview", "scope_of_work", "materials",
                              "installation", "rhino_bond_requirements", "EPS_flute_fill">>,
               complexity |-> "complex",
               estimated_duration |-> "6-8 days per 10,000 sf" ],
      T6 |-> [ work_type |-> "tearoff",
               membrane_types |-> <<"TPO">>,
               attachment_methods |-> <<"mechanically_attached">>,
               deck_types |-> <<"steel">>,
               sections |-> <<"project_overview", "tearoff_requirements", "scope_of_work",
                              "materials", "insulation", "installation", "fastening", "warranty">>,
               complexity |-> "standard",
               estimated_duration |-> "7-10 days per 10,000 sf" ],
      T7 |-> [ work_type |-> "tearoff",
               membrane_types |-> <<"TPO">>,
               attachment_methods |-> <<"mechanically_attached">>,
               deck_types |-> <<"lightweight_concrete", "steel">>,
               sections |-> <<"project_overview", "tearoff_requirements", "scope_of_work",
                              "materials", "insulation", "installation", "lwc_considerations">>,
               complexity |-> "standard",
               estimated_duration |-> "8-11 days per 10,000 sf" ],
      T8 |-> [ work_type |-> "tearoff",
               membrane_types |-> <<"TPO">>,
               attachment_methods |-> <<"fully_adhered">>,
               deck_types |-> <<"gypsum">>,
               sections |-> <<"project_overview", "tearoff_requirements", "scope_of_work",
                              "materials", "adhered_insulation", "adhered_membrane",
                              "gypsum_requirements">>,
               complexity |-> "complex",
               estimated_duration |-> "9-12 days per 10,000 sf" ] ]

\* Python's  x in list
InList(x, list) == \E i \in DOMAIN list : list[i] = x

----------------------------------------------------------------------------
(* The project-data dicts the calls are made with.  The texts are the      *)
(* values of the field validator's allowed_values lists, of the selector's *)
(* own test cases, and texts no keyword occurs in.                         *)

txt == [
    empty                    |-> <<>>,
    noise                    |-> <<"#","@","!","?">>,
    recover                  |-> <<"r","e","c","o","v","e","r">>,
    tearoff                  |-> <<"t","e","a","r","o","f","f">>,
    Roof_Replacement         |-> <<"R","o","o","f"," ","R","e","p","l","a","c","e","m","e","n","t">>,
    TPO                      |-> <<"T","P","O">>,
    TPO_Fleeceback           |-> <<"T","P","O"," ","F","l","e","e","c","e","b","a","c","k">>,
    EPDM                     |-> <<"E","P","D","M">>,
    PVC                      |-> <<"P","V","C">>,
    Modified_Bitumen         |-> <<"M","o","d","i","f","i","e","d"," ","B","i","t","u","m","e","n">>,
    Built_Up                 |-> <<"B","u","i","l","t","-","U","p">>,
    TPO_newline              |-> <<"T","P","O","\n">>,
    Mechanically_Attached    |-> <<"M","e","c","h","a","n","i","c","a","l","l","y"," ","A","t","t","a","c","h","e","d">>,
    Fully_Adhered            |-> <<"F","u","l","l","y"," ","A","d","h","e","r","e","d">>,
    Fully_Attached           |-> <<"F","u","l","l","y"," ","A","t","t","a","c","h","e","d">>,
    Rhino_Bond               |-> <<"R","h","i","n","o"," ","B","o","n","d">>,
    Ballasted                |-> <<"B","a","l","l","a","s","t","e","d">>,
    Steel                    |-> <<"S","t","e","e","l">>,
    Concrete                 |-> <<"C","o","n","c","r","e","t","e">>,
    Lightweight_Concrete     |-> <<"L","i","g","h","t","w","e","i","g","h","t"," ","C","o","n","c","r","e","t","e">>,
    Gypsum                   |-> <<"G","y","p","s","u","m">>,
    Wood                     |-> <<"W","o","o","d">>,
    Structural_Standing_Seam |-> <<"S","t","r","u","c","t","u","r","a","l"," ","S","t","a","n","d","i","n","g"," ","S","e","a","m">>,
    bamboo                   |-> <<"b","a","m","b","o","o">>,
    Unknown_Deck_Material    |-> <<"U","n","k","n","o","w","n"," ","D","e","c","k"," ","M","a","t","e","r","i","a","l">> ]

\* Marks a key that the dict does not hold.
Missing == [tag |-> "missing"]

FieldValues ==
    [ project_type |->
        {Missing, PyNone} \cup
        {Str(txt[t]) : t \in {"empty", "noise", "recover", "tearoff", "Roof_Replacement"}},
      membrane_type |->
        {Missing, PyNone} \cup
        {Str(txt[t]) : t \in {"noise", "TPO", "TPO_Fleeceback", "EPDM", "PVC", "Modified_Bitumen"}},
      fastening_pattern |->
        {Missing, PyNone} \cup
        {Str(txt[t]) : t \in {"noise", "Mechanically_Attached", "Fully_Adhered",
                              "Fully_Attached", "Rhino_Bond", "Ballasted"}},
      deck_type |->
        {Missing, PyNone} \cup
        {Str(txt[t]) : t \in {"empty", "Steel", "Concrete", "Lightweight_Concrete", "Gypsum",
                              "Wood", "Structural_Standing_Seam", "bamboo",
                              "Unknown_Deck_Material"}} ]

Fields == {"project_type", "membrane_type", "fastening_pattern", "deck_type"}

\* The dict holding exactly the keys whose value is not Missing.
MakeDict(vals) == [k \in {f \in Fields : vals[f] # Missing} |-> vals[k]]

ProjectDataRecords ==
    { MakeDict([ project_type |-> p, membrane_type |-> m,
                 fastening_pattern |-> f, deck_type |-> d ]) :
        p \in FieldValues.project_type, m \in FieldValues.membrane_type,
        f \in FieldValues.fastening_pattern, d \in FieldValues.deck_type }

TemplateIdArgs == {"T2", "T4", "T5", "T6", "T7", "T8", "NOT_A_REAL_ID"}

NoArg == "-"
NoResult == [outcome |-> "none"]

\* No orchestrator is running and no persistence layer is attached.
NoWorkflow == [pc |-> "none"]
NoDb == [project |-> FALSE]

\* No API server is running: no request, and data directories nobody reads.
NoRequest == [endpoint |-> "none", state |-> "idle", status_code |-> 0]
NoDisk == {}

----------------------------------------------------------------------------
(* select_template and the two response builders *)

\* The normalizers are pure, so each is tabulated once over the values a field
\* can hold (the empty-string default of dict.get included).
DictValues ==
    (UNION {FieldValues[f] : f \in Fields} \ {Missing}) \cup
    {EmptyStr, Str(txt.Built_Up), Str(txt.TPO_newline)}

work_type_of         == [v \in DictValues |-> _normalize_work_type(v)]
membrane_type_of     == [v \in DictValues |-> _normalize_membrane_type(v)]
attachment_method_of == [v \in DictValues |-> _normalize_attachment_method(v)]
deck_type_of         == [v \in DictValues |-> _normalize_deck_type(v)]

\* The four normalizer calls made on a project-data dict, in source order.
selection_logic(pd) ==
    [ work_type         |-> work_type_of[Get(pd, "project_type", EmptyStr)],
      membrane_type     |-> membrane_type_of[Get(pd, "membrane_type", EmptyStr)],
      attachment_method |-> attachment_method_of[Get(pd, "fastening_pattern", EmptyStr)],
      deck_type         |-> deck_type_of[Get(pd, "deck_type", EmptyStr)] ]

\* An AttributeError raised by one of the normalizer calls leaves the caller.
Raises(n) ==
    \/ n.work_type = AttributeError
    \/ n.membrane_type = AttributeError
    \/ n.attachment_method = AttributeError

Raised == [outcome |-> "raised", exception |-> AttributeError]


\* Mutant: the notes argument is dropped.
_build_template_response_no_notes(tid, template_name, description, pd, notes) ==
    LET metadata == Get(template_metadata, tid, EmptyDict)
    IN  [ outcome |-> "returned",
          template_id |-> tid,
          template_info |->
            [ template_id |-> tid,
              template_name |-> template_name,
              description |-> description,
              metadata |-> metadata,
              selection_logic |-> selection_logic(pd),
              confidence |-> "high",
              notes |-> <<>>,
              estimated_duration |-> Get(metadata, "estimated_duration", "To be determined"),
              complexity |-> Get(metadata, "complexity", "standard"),
              sections |-> Get(metadata, "sections", <<>>) ] ]

_build_template_response(tid, template_name, description, pd, notes) ==
    LET metadata == Get(template_metadata, tid, EmptyDict)
    IN  [ outcome |-> "returned",
          template_id |-> tid,
          template_info |->
            [ template_id |-> tid,
              template_name |-> template_name,
              description |-> description,
              metadata |-> metadata,
              selection_logic |-> selection_logic(pd),
              confidence |-> "high",
              notes |-> notes,
              estimated_duration |-> Get(metadata, "estimated_duration", "To be determined"),
              complexity |-> Get(metadata, "complexity", "standard"),
              sections |-> Get(metadata, "sections", <<>>) ] ]


\* Mutant: the fallback response is built like a match (confidence high).
_build_fallback_response_high(pd) ==
    [ outcome |-> "returned",
      template_id |-> "T2",
      template_info |->
        [ template_id |-> "T2",
          template_name |-> "T2-Recover-TPO(MA)-cvr-bd-BUR-lwc-steel",
          description |-> "Default TPO template - requires manual review",
          metadata |-> Get(template_metadata, "T2", EmptyDict),
          selection_logic |-> selection_logic(pd),
          confidence |-> "high",
          notes |-> << "No exact template match found for specified parameters",
                       "Using default TPO recover template",
                       "Manual review recommended for template selection" >>,
          estimated_duration |-> "To be determined based on final specifications",
          complexity |-> "requires_review" ] ]

_build_fallback_response(pd) ==
    [ outcome |-> "returned",
      template_id |-> "T2",
      template_info |->
        [ template_id |-> "T2",
          template_name |-> "T2-Recover-TPO(MA)-cvr-bd-BUR-lwc-steel",
          description |-> "Default TPO template - requires manual review",
          metadata |-> Get(template_metadata, "T2", EmptyDict),
          selection_logic |-> selection_logic(pd),
          confidence |-> "low",
          notes |-> << "No exact template match found for specified parameters",
                       "Using default TPO recover template",
                       "Manual review recommended for template selection" >>,
          estimated_duration |-> "To be determined based on final specifications",
          complexity |-> "requires_review" ] ]


\* Mutant: the verification note is attached to an exact hit as well.
select_template_note_on_exact(pd) ==
    LET n == selection_logic(pd)
        lookup_key == <<n.work_type, n.membrane_type, n.attachment_method, n.deck_type>>
        fallback_key == <<n.work_type, n.membrane_type, n.attachment_method, NoDeck>>
    IN  IF Raises(n) THEN Raised
        ELSE IF lookup_key \in DOMAIN template_mapping
        THEN LET e == template_mapping[lookup_key]
             IN  _build_template_response(e[1], e[2], e[3], pd,
                    <<"Deck type needs verification for optimal template selection">>)
        ELSE IF fallback_key \in DOMAIN template_mapping
        THEN LET e == template_mapping[fallback_key]
             IN  _build_template_response(e[1], e[2], e[3], pd,
                    <<"Deck type needs verification for optimal template selection">>)
        ELSE _build_fallback_response(pd)

\* Mutant: the wildcard-deck key is tried before the exact key.
select_template_wildcard_first(pd) ==
    LET n == selection_logic(pd)
        lookup_key == <<n.work_type, n.membrane_type, n.attachment_method, n.deck_type>>
        fallback_key == <<n.work_type, n.membrane_type, n.attachment_method, NoDeck>>
    IN  IF Raises(n) THEN Raised
        ELSE IF fallback_key \in DOMAIN template_mapping
        THEN LET e == template_mapping[fallback_key]
             IN  _build_template_response(e[1], e[2], e[3], pd,
                    IF lookup_key = fallback_key THEN <<>>
                    ELSE <<"Deck type needs verification for optimal template selection">>)
        ELSE IF lookup_key \in DOMAIN template_mapping
        THEN LET e == template_mapping[lookup_key]
             IN  _build_template_response(e[1], e[2], e[3], pd, <<>>)
        ELSE _build_fallback_response(pd)

\* Mutant: a key with an absent deck counts as a wildcard hit, not an exact one.
select_template_absent_deck_is_wildcard(pd) ==
    LET n == selection_logic(pd)
        lookup_key == <<n.work_type, n.membrane_type, n.attachment_method, n.deck_type>>
        fallback_key == <<n.work_type, n.membrane_type, n.attachment_method, NoDeck>>
    IN  IF Raises(n) THEN Raised
        ELSE IF n.deck_type # NoDeck /\ lookup_key \in DOMAIN template_mapping
        THEN LET e == template_mapping[lookup_key]
             IN  _build_template_response(e[1], e[2], e[3], pd, <<>>)
        ELSE IF fallback_key \in DOMAIN template_mapping
        THEN LET e == template_mapping[fallback_key]
             IN  _build_template_response(e[1], e[2], e[3], pd,
                    <<"Deck type needs verification for optimal template selection">>)
        ELSE _build_fallback_response(pd)

select_template(pd) ==
    LET n == selection_logic(pd)
        lookup_key == <<n.work_type, n.membrane_type, n.attachment_method, n.deck_type>>
        fallback_key == <<n.work_type, n.membrane_type, n.attachment_method, NoDeck>>
    IN  IF Raises(n) THEN Raised
        ELSE IF lookup_key \in DOMAIN template_mapping
        THEN LET e == template_mapping[lookup_key]
             IN  _build_template_response(e[1], e[2], e[3], pd, <<>>)
        ELSE IF fallback_key \in DOMAIN template_mapping
        THEN LET e == template_mapping[fallback_key]
             IN  _build_template_response(e[1], e[2], e[3], pd,
                    <<"Deck type needs verification for optimal template selection">>)
        ELSE _build_fallback_response(pd)

----------------------------------------------------------------------------
(* validate_template_compatibility *)


\* Lines 323, 328, 333: the three normalizer calls of the validator (the
\* fastening pattern is not read).
compatibility_inputs(pd) ==
    [ work_type     |-> work_type_of[Get(pd, "project_type", EmptyStr)],
      membrane_type |-> membrane_type_of[Get(pd, "membrane_type", EmptyStr)],
      deck_type     |-> deck_type_of[Get(pd, "deck_type", EmptyStr)] ]

\* An AttributeError raised by one of these calls leaves the validator.
CompatibilityRaises(n) ==
    \/ n.work_type = AttributeError
    \/ n.membrane_type = AttributeError

\* Mutant: the work-type comparison is inverted.
work_type_errors_inverted(metadata, n) ==
    IF n.work_type = metadata.work_type
    THEN << <<"Work type mismatch", metadata.work_type, n.work_type>> >>
    ELSE <<>>

\* Lines 322-325: the work-type check.
work_type_errors(metadata, n) ==
    IF n.work_type # metadata.work_type
    THEN << <<"Work type mismatch", metadata.work_type, n.work_type>> >>
    ELSE <<>>

\* Lines 327-330: the membrane-type check.
membrane_type_errors(metadata, n) ==
    IF ~InList(n.membrane_type, metadata.membrane_types)
    THEN << <<"Membrane type not supported by this template", n.membrane_type>> >>
    ELSE <<>>

\* Lines 332-335: the deck-type check ("if deck_type and deck_type not in ...").
deck_type_warnings(metadata, n) ==
    IF n.deck_type # NoDeck /\ ~InList(n.deck_type, metadata.deck_types)
    THEN << <<"Deck type may not be optimal for this template", n.deck_type>> >>
    ELSE <<>>

\* Mutant: the catalog key is misspelt, so no restriction is ever found.
restriction_warnings_misspelt_key(metadata) ==
    IF "restriction" \in DOMAIN metadata
    THEN [i \in DOMAIN metadata.restriction |->
            <<"Template restriction", metadata.restriction[i]>>]
    ELSE <<>>

\* Lines 337-340: one warning per restriction of the template.
restriction_warnings(metadata) ==
    IF "restrictions" \in DOMAIN metadata
    THEN [i \in DOMAIN metadata.restrictions |->
            <<"Template restriction", metadata.restrictions[i]>>]
    ELSE <<>>


\* Mutant: warnings are looked at before errors.
report_confidence_warnings_first(errors, warnings) ==
    IF Len(errors) = 0 /\ Len(warnings) = 0 THEN "high"
    ELSE IF Len(warnings) # 0 THEN "medium"
    ELSE "low"

\* Line 347: the confidence of a report.
report_confidence(errors, warnings) ==
    IF Len(errors) = 0 /\ Len(warnings) = 0 THEN "high"
    ELSE IF Len(errors) = 0 THEN "medium"
    ELSE "low"


\* Mutant: the fields are normalized before the template id is looked up.
validate_template_compatibility_normalize_first(tid, pd) ==
    LET n == compatibility_inputs(pd)
    IN  IF CompatibilityRaises(n) THEN Raised
        ELSE IF tid \notin DOMAIN template_metadata
        THEN [ outcome |-> "returned",
               compatible |-> FALSE,
               errors |-> << <<"Template not found", tid>> >>,
               warnings |-> <<>>,
               recommendations |-> <<"Please select a valid template">> ]
        ELSE
        LET metadata == template_metadata[tid]
            errors == work_type_errors(metadata, n) \o membrane_type_errors(metadata, n)
            warnings == deck_type_warnings(metadata, n) \o restriction_warnings(metadata)
        IN  [ outcome |-> "returned",
              compatible |-> Len(errors) = 0,
              errors |-> errors,
              warnings |-> warnings,
              recommendations |-> <<>>,
              confidence |-> report_confidence(errors, warnings) ]

\* Mutant: the attachment method is normalized and checked like the membrane.
validate_template_compatibility_checks_attachment(tid, pd) ==
    IF tid \notin DOMAIN template_metadata
    THEN [ outcome |-> "returned",
           compatible |-> FALSE,
           errors |-> << <<"Template not found", tid>> >>,
           warnings |-> <<>>,
           recommendations |-> <<"Please select a valid template">> ]
    ELSE
    LET metadata == template_metadata[tid]
        n == selection_logic(pd)
        attachment_errors ==
            IF ~InList(n.attachment_method, metadata.attachment_methods)
            THEN << <<"Attachment method not supported by this template",
                      n.attachment_method>> >>
            ELSE <<>>
        errors == work_type_errors(metadata, n) \o membrane_type_errors(metadata, n)
                    \o attachment_errors
        warnings == deck_type_warnings(metadata, n) \o restriction_warnings(metadata)
    IN  IF Raises(n) THEN Raised ELSE
        [ outcome |-> "returned",
          compatible |-> Len(errors) = 0,
          errors |-> errors,
          warnings |-> warnings,
          recommendations |-> <<>>,
          confidence |-> report_confidence(errors, warnings) ]

\* Lines 305-348.
validate_template_compatibility(tid, pd) ==
    IF tid \notin DOMAIN template_metadata
    THEN [ outcome |-> "returned",
           compatible |-> FALSE,
           errors |-> << <<"Template not found", tid>> >>,
           warnings |-> <<>>,
           recommendations |-> <<"Please select a valid template">> ]
    ELSE
    LET metadata == template_metadata[tid]
        n == compatibility_inputs(pd)
        errors == work_type_errors(metadata, n) \o membrane_type_errors(metadata, n)
        warnings == deck_type_warnings(metadata, n) \o restriction_warnings(metadata)
    IN  IF CompatibilityRaises(n) THEN Raised ELSE
        [ outcome |-> "returned",
          compatible |-> Len(errors) = 0,
          errors |-> errors,
          warnings |-> warnings,
          recommendations |-> <<>>,
          confidence |-> report_confidence(errors, warnings) ]

----------------------------------------------------------------------------
(* get_available_templates *)

\* The order in which template_metadata.items() yields the catalog: the
\* insertion order of the dict literal (lines 68-129).
CatalogOrder == <<"T2", "T4", "T5", "T6", "T7", "T8">>

\* The characters of the template ids, and Python's ord() on them.
template_id_chars ==
    [ T2 |-> <<"T", "2">>, T4 |-> <<"T", "4">>, T5 |-> <<"T", "5">>,
      T6 |-> <<"T", "6">>, T7 |-> <<"T", "7">>, T8 |-> <<"T", "8">> ]
Digits == <<"0", "1", "2", "3", "4", "5", "6", "7", "8", "9">>
ord(c) == IF c = "T" THEN 84 ELSE 47 + (CHOOSE i \in DOMAIN Digits : Digits[i] = c)

\* Python's  a < b  on two strs: the first differing character decides, a
\* proper prefix is smaller.
str_lt(a, b) ==
    \E i \in 1..(Len(a) + 1) :
        /\ i <= Len(b)
        /\ \A j \in 1..(i - 1) : a[j] = b[j]
        /\ (i <= Len(a) => ord(a[i]) < ord(b[i]))

\* Line 303: sorted(templates, key=lambda x: x["template_id"]) (a stable sort).
RECURSIVE sorted_by_template_id(_)
sorted_by_template_id(templates) ==
    IF templates = <<>> THEN <<>>
    ELSE LET n == Len(templates)
             x == templates[n]
             head == sorted_by_template_id(SubSeq(templates, 1, n - 1))
             NotAfter(y) == ~str_lt(template_id_chars[x.template_id],
                                    template_id_chars[y.template_id])
             After(y) == ~NotAfter(y)
         IN  SelectSeq(head, NotAfter) \o <<x>> \o SelectSeq(head, After)

\* Lines 292-301: the summary of one catalog entry.  The template_name
\* f-string joins the id, the work type and the membrane types with "-".
template_summary(tid) ==
    LET metadata == template_metadata[tid]
    IN  [ template_id |-> tid,
          template_name |-> <<tid, "-", metadata.work_type, "-", metadata.membrane_types>>,
          work_type |-> metadata.work_type,
          membrane_types |-> metadata.membrane_types,
          attachment_methods |-> metadata.attachment_methods,
          deck_types |-> metadata.deck_types,
          complexity |-> metadata.complexity,
          estimated_duration |-> metadata.estimated_duration ]

\* Mutant: the membrane filter is an elif of the work-type filter.
get_available_templates_elif(work_type, membrane_type) ==
    LET Kept(tid) ==
            LET metadata == template_metadata[tid]
            IN  IF Truthy(work_type)
                THEN metadata.work_type = work_type_of[work_type]
                ELSE ~(Truthy(membrane_type)
                        /\ ~InList(membrane_type_of[membrane_type], metadata.membrane_types))
        kept == SelectSeq(SelectSeq(CatalogOrder, LAMBDA t : t \in DOMAIN template_metadata), Kept)
    IN  [ outcome |-> "returned",
          templates |-> sorted_by_template_id([i \in DOMAIN kept |-> template_summary(kept[i])]) ]

\* Lines 280-303.  A filter that is None or "" is falsy and filters nothing.
get_available_templates(work_type, membrane_type) ==
    LET Kept(tid) ==
            LET metadata == template_metadata[tid]
            IN  /\ ~(Truthy(work_type) /\ metadata.work_type # work_type_of[work_type])
                /\ ~(Truthy(membrane_type)
                        /\ ~InList(membrane_type_of[membrane_type], metadata.membrane_types))
        kept == SelectSeq(SelectSeq(CatalogOrder, LAMBDA t : t \in DOMAIN template_metadata), Kept)
    IN  [ outcome |-> "returned",
          templates |-> sorted_by_template_id([i \in DOMAIN kept |-> template_summary(kept[i])]) ]

\* The filter arguments tried: no filter, the empty text, a text without
\* keyword, and texts the normalizers recognize.
WorkTypeFilters ==
    {PyNone} \cup {Str(txt[t]) : t \in {"empty", "noise", "recover", "tearoff", "Roof_Replacement"}}
MembraneTypeFilters ==
    {PyNone} \cup {Str(txt[t]) : t \in {"empty", "noise", "TPO", "TPO_Fleeceback", "EPDM",
                                         "PVC", "Modified_Bitumen"}}

----------------------------------------------------------------------------
(* The state machine: one selector, one project-data dict, any sequence of *)
(* calls of its public methods on that dict.                               *)

Init ==
    /\ template_mapping = InitialTemplateMapping
    /\ template_metadata = InitialTemplateMetadata
    /\ project_data \in ProjectDataRecords
    /\ op = "new"
    /\ template_id = NoArg
    /\ filters = NoArg
    /\ result = NoResult
    /\ first_selection = NoResult
    /\ workflow = NoWorkflow
    /\ db = NoDb
    /\ request = NoRequest
    /\ disk = NoDisk

\* Mutant: select_template memoizes its answer in the lookup table.
SelectTemplate_memoizes ==
    LET n == selection_logic(project_data)
        r == select_template(project_data)
    IN  /\ op' = "select_template"
        /\ template_id' = NoArg
        /\ filters' = NoArg
        /\ result' = r
        /\ first_selection' = IF first_selection = NoResult THEN r ELSE first_selection
        /\ template_mapping' =
              IF r.outcome = "returned"
              THEN [k \in DOMAIN template_mapping \cup
                          {<<n.work_type, n.membrane_type, n.attachment_method, n.deck_type>>} |->
                      IF k \in DOMAIN template_mapping THEN template_mapping[k]
                      ELSE <<r.template_info.template_id, r.template_info.template_name,
                             r.template_info.description>>]
              ELSE template_mapping
        /\ UNCHANGED <<template_metadata, project_data, workflow, db, request, disk>>

SelectTemplate ==
    LET r == select_template(project_data)
    IN  /\ op' = "select_template"
        /\ template_id' = NoArg
        /\ filters' = NoArg
        /\ result' = r
        /\ first_selection' = IF first_selection = NoResult THEN r ELSE first_selection
        /\ UNCHANGED <<template_mapping, template_metadata, project_data, workflow, db, request, disk>>

ValidateTemplateCompatibility ==
    \E tid \in TemplateIdArgs :
        /\ op' = "validate_template_compatibility"
        /\ template_id' = tid
        /\ filters' = NoArg
        /\ result' = validate_template_compatibility(tid, project_data)
        /\ UNCHANGED <<template_mapping, template_metadata, project_data, first_selection, workflow, db, request, disk>>

GetAvailableTemplates ==
    \E work_type \in WorkTypeFilters, membrane_type \in MembraneTypeFilters :
        /\ op' = "get_available_templates"
        /\ template_id' = NoArg
        /\ filters' = [work_type |-> work_type, membrane_type |-> membrane_type]
        /\ result' = get_available_templates(work_type, membrane_type)
        /\ UNCHANGED <<template_mapping, template_metadata, project_data, first_selection, workflow, db, request, disk>>

Next ==
    \/ SelectTemplate
    \/ ValidateTemplateCompatibility

Spec == Init /\ [][Next]_vars

\* The selector's three public methods, called in any order on one of the
\* dicts of ListedProjects.
ListedProjects ==
    { MakeDict([ project_type |-> p, membrane_type |-> m,
                 fastening_pattern |-> f, deck_type |-> d ]) :
        p \in {PyNone, Str(txt.recover), Str(txt.tearoff)},
        m \in {Str(txt.TPO), Str(txt.TPO_Fleeceback)},
        f \in {Str(txt.Mechanically_Attached), Str(txt.Rhino_Bond)},
        d \in {Missing, Str(txt.Steel), Str(txt.bamboo)} }

InitListed == Init /\ project_data \in ListedProjects

NextListed ==
    \/ SelectTemplate
    \/ ValidateTemplateCompatibility
    \/ GetAvailableTemplates

SpecListed == InitListed /\ [][NextListed]_vars

----------------------------------------------------------------------------
(* Vocabulary of the properties *)

WorkTypes == {"recover", "tearoff"}
MembraneTypes == {"TPO", "TPO_fleece", "EPDM", "PVC"}
AttachmentMethods == {"mechanically_attached", "fully_adhered", "rhino_bond", "ballasted"}
DeckTypes == {"steel", "concrete", "lightweight_concrete", "gypsum", "wood",
              "structural_standing_seam", NoDeck}

\* The normalized fields of the dict under study, and the two keys built from them.
Normalized == selection_logic(project_data)
LookupKey ==
    <<Normalized.work_type, Normalized.membrane_type,
      Normalized.attachment_method, Normalized.deck_type>>
FallbackKey ==
    <<Normalized.work_type, Normalized.membrane_type,
      Normalized.attachment_method, NoDeck>>

\* The last call was select_template / validate_template_compatibility and it returned.
Selected == op = "select_template" /\ result.outcome = "returned"
Validated == op = "validate_template_compatibility" /\ result.outcome = "returned"

\* <<id, name, description>> of a returned selection, as the lookup table stores it.
SelectedEntry ==
    <<result.template_info.template_id, result.template_info.template_name,
      result.template_info.description>>

HasValue(field, t) == field \in DOMAIN project_data /\ project_data[field] = Str(txt[t])

\* The three scenarios of the selector's own test cases (__main__).
SteelRecoverProject ==
    /\ HasValue("project_type", "recover") /\ HasValue("membrane_type", "TPO")
    /\ HasValue("fastening_pattern", "Mechanically_Attached") /\ HasValue("deck_type", "Steel")
GypsumTearoffProject ==
    /\ HasValue("project_type", "tearoff") /\ HasValue("membrane_type", "TPO")
    /\ HasValue("fastening_pattern", "Fully_Adhered") /\ HasValue("deck_type", "Gypsum")
RhinoBondProject ==
    /\ HasValue("project_type", "recover") /\ HasValue("membrane_type", "TPO")
    /\ HasValue("fastening_pattern", "Rhino_Bond")
    /\ HasValue("deck_type", "Structural_Standing_Seam")

----------------------------------------------------------------------------
(* C1 - Template selection is total: whatever the four fields hold (empty  *)
(* string, arbitrary text, a missing key, a null value), each normalizer   *)
(* returns a value of its enum and select_template returns a result.       *)
(* Stated as the claim states it; the code raises on a null value.         *)
C1_SelectTemplateTotal ==
    op = "select_template" =>
        /\ Normalized.work_type \in WorkTypes
        /\ Normalized.membrane_type \in MembraneTypes
        /\ Normalized.attachment_method \in AttachmentMethods
        /\ Normalized.deck_type \in DeckTypes
        /\ result.outcome = "returned"

(* C2 - The input recover / TPO / "Rhino Bond" / "Structural Standing      *)
(* Seam" makes select_template return the rhino-bond template T5.          *)
(* Stated as the claim states it; the code returns the default T2.         *)
C2_RhinoBondScenarioSelectsT5 ==
    (op = "select_template" /\ RhinoBondProject) =>
        /\ result.outcome = "returned"
        /\ result.template_id = "T5"

(* C3 - Exact match: when the four fields normalize to a lookup-table key  *)
(* with a specific deck type, select_template returns that entry's id,     *)
(* name and description with confidence high and no notes; the steel       *)
(* recover scenario gives T2 and the gypsum tearoff scenario gives T8.     *)
C3_ExactMatch ==
    Selected =>
        /\ (LookupKey \in DOMAIN template_mapping /\ Normalized.deck_type # NoDeck) =>
              /\ SelectedEntry = template_mapping[LookupKey]
              /\ result.template_id = template_mapping[LookupKey][1]
              /\ result.template_info.confidence = "high"
              /\ result.template_info.notes = <<>>
        /\ SteelRecoverProject => result.template_id = "T2"
        /\ GypsumTearoffProject => result.template_id = "T8"

C3_Witness ==
    /\ Selected /\ GypsumTearoffProject
    /\ LookupKey = <<"tearoff", "TPO", "fully_adhered", "gypsum">>
    /\ result.template_id = "T8"
    /\ result.template_info.notes = <<>>

(* C4 - Precedence: the exact key's entry is returned when the exact key   *)
(* is in the table, even if a wildcard-deck entry exists; the wildcard     *)
(* entry only when the exact key is missing; the ultimate fallback only    *)
(* when both are missing.  No entry whose work type, membrane type or      *)
(* attachment method differs from the normalized input is returned as a   *)
(* match.                                                                  *)
C4_Precedence ==
    Selected =>
        /\ IF LookupKey \in DOMAIN template_mapping
           THEN /\ SelectedEntry = template_mapping[LookupKey]
                /\ result.template_info.confidence = "high"
           ELSE IF FallbackKey \in DOMAIN template_mapping
           THEN /\ SelectedEntry = template_mapping[FallbackKey]
                /\ result.template_info.confidence = "high"
           ELSE result.template_info.confidence = "low"
        /\ \A k \in DOMAIN template_mapping :
              (<<k[1], k[2], k[3]>> # <<LookupKey[1], LookupKey[2], LookupKey[3]>>) =>
                 ~(/\ result.template_info.confidence = "high"
                   /\ SelectedEntry = template_mapping[k])

\* An exact entry wins although a wildcard-deck entry exists for the same triple.
C4_Witness ==
    /\ Selected
    /\ LookupKey \in DOMAIN template_mapping
    /\ FallbackKey \in DOMAIN template_mapping
    /\ LookupKey # FallbackKey
    /\ template_mapping[LookupKey] # template_mapping[FallbackKey]
    /\ SelectedEntry = template_mapping[LookupKey]

(* C5 - Ultimate fallback: when the table has neither the exact key nor    *)
(* the wildcard-deck key, e.g. (tearoff, PVC, ballasted, absent),          *)
(* select_template returns T2 with confidence low and the three notes (no  *)
(* exact match, default template in use, manual review recommended);       *)
(* confidence is low in no other case.                                     *)
C5_UltimateFallback ==
    Selected =>
        /\ (LookupKey \notin DOMAIN template_mapping /\ FallbackKey \notin DOMAIN template_mapping)
              <=> result.template_info.confidence = "low"
        /\ result.template_info.confidence = "low" =>
              /\ result.template_id = "T2"
              /\ result.template_info.template_id = "T2"
              /\ result.template_info.notes =
                    << "No exact template match found for specified parameters",
                       "Using default TPO recover template",
                       "Manual review recommended for template selection" >>

C5_Witness ==
    /\ Selected
    /\ LookupKey = <<"tearoff", "PVC", "ballasted", NoDeck>>
    /\ result.template_id = "T2"
    /\ result.template_info.confidence = "low"

(* C6 - Wildcard-deck fallback: when the normalized deck type is a         *)
(* specific token, the exact key is not in the table and the key with the  *)
(* deck forced to absent is, select_template returns the wildcard entry's  *)
(* template with confidence high and exactly the one note "Deck type needs *)
(* verification for optimal template selection".                           *)
C6_WildcardDeckFallback ==
    (/\ Selected
     /\ Normalized.deck_type # NoDeck
     /\ LookupKey \notin DOMAIN template_mapping
     /\ FallbackKey \in DOMAIN template_mapping) =>
        /\ SelectedEntry = template_mapping[FallbackKey]
        /\ result.template_id = template_mapping[FallbackKey][1]
        /\ result.template_info.confidence = "high"
        /\ result.template_info.notes =
              <<"Deck type needs verification for optimal template selection">>

\* recover / TPO / mechanically attached on a gypsum deck: no entry of its own.
C6_Witness ==
    /\ Selected
    /\ LookupKey = <<"recover", "TPO", "mechanically_attached", "gypsum">>
    /\ result.template_id = "T2"
    /\ result.template_info.description = "Standard TPO recover (deck type to be determined)"
    /\ Len(result.template_info.notes) = 1

(* C7 - An unrecognized deck text ("bamboo", "Unknown Deck Material")      *)
(* normalizes to absent, and for (recover, TPO, mechanically attached)     *)
(* with such a deck select_template never returns the entry keyed on deck  *)
(* steel: it returns the wildcard-deck entry ("Standard TPO recover (deck  *)
(* type to be determined)") when one exists and the ultimate fallback      *)
(* otherwise.                                                              *)
UnrecognizedDeck == HasValue("deck_type", "bamboo") \/ HasValue("deck_type", "Unknown_Deck_Material")

C7_UnrecognizedDeckIsWildcard ==
    (Selected /\ UnrecognizedDeck) =>
        /\ Normalized.deck_type = NoDeck
        /\ (/\ Normalized.work_type = "recover"
            /\ Normalized.membrane_type = "TPO"
            /\ Normalized.attachment_method = "mechanically_attached") =>
              /\ SelectedEntry #
                    template_mapping[<<"recover", "TPO", "mechanically_attached", "steel">>]
              /\ IF FallbackKey \in DOMAIN template_mapping
                 THEN /\ SelectedEntry = template_mapping[FallbackKey]
                      /\ result.template_info.description =
                            "Standard TPO recover (deck type to be determined)"
                 ELSE result.template_info.confidence = "low"

C7_Witness ==
    /\ Selected
    /\ HasValue("deck_type", "bamboo")
    /\ <<LookupKey[1], LookupKey[2], LookupKey[3]>> = <<"recover", "TPO", "mechanically_attached">>
    /\ result.template_info.description = "Standard TPO recover (deck type to be determined)"

(* C8 - For a catalog template, validate_template_compatibility reports an *)
(* error exactly for a normalized work type different from the template's  *)
(* work_type and for a normalized membrane type not in its membrane_types, *)
(* and for nothing else; a present deck type not in its deck_types adds a  *)
(* warning and never an error; an absent deck type adds neither.           *)
HasMessage(list, text) == \E i \in DOMAIN list : list[i][1] = text

WorkTypeMismatch == Normalized.work_type # template_metadata[template_id].work_type
MembraneMismatch == ~InList(Normalized.membrane_type, template_metadata[template_id].membrane_types)
DeckMismatch ==
    /\ Normalized.deck_type # NoDeck
    /\ ~InList(Normalized.deck_type, template_metadata[template_id].deck_types)

C8_ErrorsAndWarnings ==
    (Validated /\ template_id \in DOMAIN template_metadata) =>
        /\ HasMessage(result.errors, "Work type mismatch") <=> WorkTypeMismatch
        /\ HasMessage(result.errors, "Membrane type not supported by this template")
              <=> MembraneMismatch
        /\ Len(result.errors) = (IF WorkTypeMismatch THEN 1 ELSE 0)
                                + (IF MembraneMismatch THEN 1 ELSE 0)
        /\ HasMessage(result.warnings, "Deck type may not be optimal for this template")
              <=> DeckMismatch
        /\ ~HasMessage(result.errors, "Deck type may not be optimal for this template")

\* A deck mismatch alone: a warning, no error.
C8_Witness ==
    /\ Validated /\ template_id = "T6"
    /\ DeckMismatch /\ ~WorkTypeMismatch /\ ~MembraneMismatch
    /\ result.errors = <<>>
    /\ Len(result.warnings) = 1

(* C9 - For every report of a catalog template: compatible is true iff the *)
(* errors list is empty; confidence is high iff there are no errors and no *)
(* warnings, medium iff there are no errors and at least one warning, low  *)
(* iff there is at least one error.                                        *)
C9_CompatibleAndConfidence ==
    (Validated /\ template_id \in DOMAIN template_metadata) =>
        /\ result.compatible <=> (result.errors = <<>>)
        /\ result.confidence = "high" <=> (result.errors = <<>> /\ result.warnings = <<>>)
        /\ result.confidence = "medium" <=> (result.errors = <<>> /\ result.warnings # <<>>)
        /\ result.confidence = "low" <=> (result.errors # <<>>)

\* A report with an error and a warning: confidence low.
C9_Witness ==
    /\ Validated /\ template_id \in DOMAIN template_metadata
    /\ result.errors # <<>> /\ result.warnings # <<>>
    /\ result.confidence = "low" /\ ~result.compatible

(* C10 - With a template id that is not in the catalog,                    *)
(* validate_template_compatibility returns compatible=false with a single  *)
(* "not found" error and no warnings for every project-data dict, without  *)
(* performing the work-type, membrane, deck or restriction checks.         *)
C10_UnknownTemplateId ==
    (op = "validate_template_compatibility" /\ template_id \notin DOMAIN template_metadata) =>
        /\ result.outcome = "returned"
        /\ result.compatible = FALSE
        /\ result.errors = << <<"Template not found", template_id>> >>
        /\ result.warnings = <<>>

\* The dict holds a null membrane type, on which the membrane check would raise.
C10_Witness ==
    /\ op = "validate_template_compatibility" /\ template_id = "NOT_A_REAL_ID"
    /\ "membrane_type" \in DOMAIN project_data /\ project_data.membrane_type = PyNone
    /\ result.outcome = "returned" /\ ~result.compatible

(* C11 - For a template whose catalog entry has a non-empty restrictions   *)
(* list (T4), every report validate_template_compatibility returns holds   *)
(* one "Template restriction" warning per restriction text, for every      *)
(* project-data dict, the fully compatible ones included, so the           *)
(* confidence of such a report is never high.                              *)
HasRestrictions(tid) ==
    /\ tid \in DOMAIN template_metadata
    /\ "restrictions" \in DOMAIN template_metadata[tid]
    /\ template_metadata[tid].restrictions # <<>>

WithFastening(pd, f) ==
    MakeDict([k \in Fields |->
                IF k = "fastening_pattern" THEN f
                ELSE IF k \in DOMAIN pd THEN pd[k] ELSE Missing])

C12_FasteningPatternIgnored ==
    op = "validate_template_compatibility" =>
        \A f \in FieldValues.fastening_pattern :
            validate_template_compatibility(template_id, WithFastening(project_data, f)) = result

\* A compatible report for T2 (mechanically attached only) on a fully
\* adhered project.
C12_Witness ==
    /\ Validated /\ template_id = "T2"
    /\ HasValue("fastening_pattern", "Fully_Adhered")
    /\ ~InList(Normalized.attachment_method, template_metadata["T2"].attachment_methods)
    /\ result.compatible /\ result.errors = <<>>

(* C16 - Lookup-table consistency: every template id of a lookup-table     *)
(* entry is a key of the catalog, each id goes with one template name in   *)
(* all entries that use it, and every response select_template returns,    *)
(* the ultimate fallback included, carries an id that is a key of the      *)
(* catalog, with the name the lookup table gives that id.                  *)
C16_LookupTableConsistent ==
    /\ \A k \in DOMAIN template_mapping :
          template_mapping[k][1] \in DOMAIN template_metadata
    /\ \A k1, k2 \in DOMAIN template_mapping :
          template_mapping[k1][1] = template_mapping[k2][1] =>
              template_mapping[k1][2] = template_mapping[k2][2]
    /\ Selected =>
          /\ result.template_info.template_id \in DOMAIN template_metadata
          /\ \A k \in DOMAIN template_mapping :
                template_mapping[k][1] = result.template_info.template_id =>
                    template_mapping[k][2] = result.template_info.template_name

\* The ultimate fallback was returned, and the table has entries with its id.
C16_Witness ==
    /\ Selected /\ result.template_info.confidence = "low"
    /\ LookupKey \notin DOMAIN template_mapping
    /\ FallbackKey \notin DOMAIN template_mapping
    /\ \E k \in DOMAIN template_mapping :
          /\ template_mapping[k][1] = result.template_info.template_id
          /\ template_mapping[k][2] = result.template_info.template_name

(* C17 - Determinism and statelessness: after any sequence of              *)
(* select_template, validate_template_compatibility and                    *)
(* get_available_templates calls on one selector, select_template on the   *)
(* project-data dict returns the template id and the confidence its first  *)
(* call returned (or raises as its first call did), and the catalog and    *)
(* the lookup table are as __init__ built them.                            *)
C17_DeterministicAndStateless ==
    /\ template_mapping = InitialTemplateMapping
    /\ template_metadata = InitialTemplateMetadata
    /\ op = "select_template" =>
          /\ result.outcome = first_selection.outcome
          /\ result.outcome = "returned" =>
                /\ result.template_id = first_selection.template_id
                /\ result.template_info.confidence = first_selection.template_info.confidence

\* A select_template call that used the ultimate fallback, with a first
\* call on record: the state every later call on this dict ends in.
C17_Witness ==
    /\ Selected /\ result.template_info.confidence = "low"
    /\ first_selection # NoResult
    /\ LookupKey \notin DOMAIN template_mapping
    /\ FallbackKey \notin DOMAIN template_mapping

(* C18 - get_available_templates returns the summaries of exactly the      *)
(* catalog templates whose work_type is the normalized work-type filter    *)
(* (when a non-empty filter is given) and whose membrane_types hold the    *)
(* normalized membrane filter (when a non-empty filter is given), in       *)
(* ascending order of template id; the filters are normalized as in        *)
(* selection, so a work-type filter without keyword lists the recover      *)
(* templates and a membrane filter without keyword lists the TPO ones.     *)
Listed == op = "get_available_templates" /\ result.outcome = "returned"
ListedIds == {result.templates[i].template_id : i \in DOMAIN result.templates}
Given(filter) == filter # PyNone /\ filter # EmptyStr

MatchesFilters(tid) ==
    /\ Given(filters.work_type) =>
          template_metadata[tid].work_type = _normalize_work_type(filters.work_type)
    /\ Given(filters.membrane_type) =>
          InList(_normalize_membrane_type(filters.membrane_type),
                 template_metadata[tid].membrane_types)

----------------------------------------------------------------------------
(* The membrane and attachment normalizers on texts made of several words, *)
(* in mixed letter case: every concatenation of at most MaxWords words.    *)

MaxWords == 3

MembraneWords == {<<"T","P","O">>, <<"e","p","d","m">>, <<"P","v","c">>, <<"F","L","E","E","C","E">>, <<"F","l","e","e","c","e","b","a","c","k">>, <<" ">>}
FasteningWords == {<<"F","u","l","l","y">>,
                   <<"A","t","t","a","c","h","e","d">>,
                   <<"A","d","h","e","r","e","d">>,
                   <<"M","E","C","H","A","N","I","C","A","L">>,
                   <<"r","h","i","n","o">>,
                   <<"I","n","d","u","c","t","i","o","n">>,
                   <<"b","a","l","l","a","s","t","e","d">>,
                   <<" ">>}

RECURSIVE Flatten(_)
Flatten(ws) == IF ws = <<>> THEN <<>> ELSE ws[1] \o Flatten(Tail(ws))

Texts(words) == {Flatten(ws) : ws \in UNION {[1..k -> words] : k \in 0..MaxWords}}

InitNormalize ==
    /\ template_mapping = InitialTemplateMapping
    /\ template_metadata = InitialTemplateMetadata
    /\ project_data \in {[membrane_type |-> Str(t)] : t \in Texts(MembraneWords)} \cup
                        {[fastening_pattern |-> Str(t)] : t \in Texts(FasteningWords)}
    /\ op = "new"
    /\ template_id = NoArg
    /\ filters = NoArg
    /\ result = NoResult
    /\ first_selection = NoResult
    /\ workflow = NoWorkflow
    /\ db = NoDb
    /\ request = NoRequest
    /\ disk = NoDisk

NormalizeMembraneType ==
    /\ "membrane_type" \in DOMAIN project_data
    /\ op' = "_normalize_membrane_type"
    /\ result' = [outcome |-> "returned",
                  value |-> _normalize_membrane_type(project_data.membrane_type)]
    /\ UNCHANGED <<template_mapping, template_metadata, project_data, template_id, filters,
                   first_selection, workflow, db, request, disk>>

NormalizeAttachmentMethod ==
    /\ "fastening_pattern" \in DOMAIN project_data
    /\ op' = "_normalize_attachment_method"
    /\ result' = [outcome |-> "returned",
                  value |-> _normalize_attachment_method(project_data.fastening_pattern)]
    /\ UNCHANGED <<template_mapping, template_metadata, project_data, template_id, filters,
                   first_selection, workflow, db, request, disk>>

NextNormalize ==
    \/ NormalizeMembraneType
    \/ NormalizeAttachmentMethod

SpecNormalize == InitNormalize /\ [][NextNormalize]_vars

\* The text under study, and whether a word occurs in it in any letter case.
MembraneText == project_data.membrane_type.val
FasteningText == project_data.fastening_pattern.val
Occurs(word, text) == Contains(lower(text), lower(word))

(* C19 - Membrane normalization checks fleece first: every membrane text   *)
(* that contains "fleece" in any letter case normalizes to TPO_fleece      *)
(* whichever of TPO, EPDM, PVC it also contains ("TPO Fleeceback" gives    *)
(* TPO_fleece); without fleece the first of TPO, EPDM, PVC, in that order, *)
(* that occurs in the text decides, and a text with none gives TPO.        *)
C19_FleeceFirst ==
    op = "_normalize_membrane_type" =>
        /\ Occurs(kw.FLEECE, MembraneText) => result.value = "TPO_fleece"
        /\ MembraneText = txt.TPO_Fleeceback => result.value = "TPO_fleece"
        /\ ~Occurs(kw.FLEECE, MembraneText) =>
              result.value =
                  IF Occurs(kw.TPO, MembraneText) THEN "TPO"
                  ELSE IF Occurs(kw.EPDM, MembraneText) THEN "EPDM"
                  ELSE IF Occurs(kw.PVC, MembraneText) THEN "PVC"
                  ELSE "TPO"

\* A text holding fleece together with TPO and EPDM.
C19_Witness ==
    /\ op = "_normalize_membrane_type"
    /\ Occurs(kw.FLEECE, MembraneText)
    /\ Occurs(kw.TPO, MembraneText) /\ Occurs(kw.EPDM, MembraneText)
    /\ result.value = "TPO_fleece"

(* C20 - Attachment normalization checks "mechanical"/"attached" before    *)
(* "adhered"/"fully": every fastening text containing "attached" or        *)
(* "mechanical" normalizes to mechanically_attached even when it also      *)
(* contains "fully", "adhered", "rhino", "induction" or "ballasted"        *)
(* ("Fully Attached" gives mechanically_attached, "Fully Adhered" gives    *)
(* fully_adhered), and a text with no keyword gives mechanically_attached. *)
C20_AttachedBeforeAdhered ==
    op = "_normalize_attachment_method" =>
        /\ (Occurs(kw.attached, FasteningText) \/ Occurs(kw.mechanical, FasteningText)) =>
              result.value = "mechanically_attached"
        /\ FasteningText = txt.Fully_Attached => result.value = "mechanically_attached"
        /\ FasteningText = txt.Fully_Adhered => result.value = "fully_adhered"
        /\ (\A k \in {"attached", "mechanical", "fully", "adhered", "rhino", "induction",
                       "ballasted"} : ~Occurs(kw[k], FasteningText)) =>
              result.value = "mechanically_attached"

\* "attached" together with "fully" and "rhino".
C20_Witness ==
    /\ op = "_normalize_attachment_method"
    /\ Occurs(kw.attached, FasteningText)
    /\ Occurs(kw.fully, FasteningText) /\ Occurs(kw.rhino, FasteningText)
    /\ ~Occurs(kw.mechanical, FasteningText)
    /\ result.value = "mechanically_attached"

----------------------------------------------------------------------------
(* The field validator (validate_takeoff_data.py).  A number is a record   *)
(* with tag "int", or the float NaN, which json.load reads from the        *)
(* literal NaN; the rules of the fields the takeoff dicts below can hold   *)
(* are modelled, in the order of the two class dicts.                      *)

Num(n) == [tag |-> "int", val |-> n]
\* float('nan'): an instance of float for which every comparison is False.
NaN == [tag |-> "nan"]
IsNumber(value) == value.tag \in {"int", "nan"}
TypeError == "TypeError"
KeyError == "KeyError"
ValueError == "ValueError"

REQUIRED_FIELDS == <<
    <<"project_name", [type |-> "str", min_length |-> 1, max_length |-> 100]>>,
    <<"address", [type |-> "str", min_length |-> 10, max_length |-> 200]>>,
    <<"roof_area", [type |-> "number", min_value |-> 100, max_value |-> 1000000]>>,
    <<"membrane_type",
      [type |-> "str",
       allowed_values |-> <<<<"T","P","O">>,
                            <<"E","P","D","M">>,
                            <<"P","V","C">>,
                            <<"M","o","d","i","f","i","e","d"," ","B","i","t","u","m","e","n">>,
                            <<"B","u","i","l","t","-","U","p">>>>]>>,
    <<"fastening_pattern",
      [type |-> "str",
       allowed_values |-> <<<<"M","e","c","h","a","n","i","c","a","l","l","y"," ","A","t","t","a","c","h","e","d">>,
                            <<"F","u","l","l","y"," ","A","d","h","e","r","e","d">>,
                            <<"B","a","l","l","a","s","t","e","d">>>>]>> >>

OPTIONAL_FIELDS == <<
    <<"insulation_type",
      [type |-> "str",
       allowed_values |-> <<<<"P","o","l","y","i","s","o">>, <<"X","P","S">>, <<"E","P","S">>,
                            <<"M","i","n","e","r","a","l"," ","W","o","o","l">>,
                            <<"N","o","n","e">>>>]>>,
    <<"insulation_thickness", [type |-> "number", min_value |-> 0, max_value |-> 12]>>,
    <<"deck_type",
      [type |-> "str",
       allowed_values |-> <<<<"S","t","e","e","l">>,
                            <<"C","o","n","c","r","e","t","e">>,
                            <<"W","o","o","d">>,
                            <<"L","i","g","h","t","w","e","i","g","h","t"," ","C","o","n","c","r","e","t","e">>>>]>>,
    <<"building_height", [type |-> "number", min_value |-> 8, max_value |-> 500]>> >>

\* isinstance(value, rules['type'])
IsInstance(value, type) ==
    IF type = "str" THEN value.tag = "str" ELSE IsNumber(value)

\* Mutant: the allowed_values rule is not applied.
validate_field_without_allowed_values(field_name, value, rules) ==
    IF ~IsInstance(value, rules.type) THEN << <<field_name, "type">> >>
    ELSE IF value.tag = "str" /\ "min_length" \in DOMAIN rules /\ Len(value.val) < rules.min_length
    THEN << <<field_name, "min_length">> >>
    ELSE IF value.tag = "str" /\ "max_length" \in DOMAIN rules /\ Len(value.val) > rules.max_length
    THEN << <<field_name, "max_length">> >>
    ELSE IF value.tag = "int" /\ "min_value" \in DOMAIN rules /\ value.val < rules.min_value
    THEN << <<field_name, "min_value">> >>
    ELSE IF value.tag = "int" /\ "max_value" \in DOMAIN rules /\ value.val > rules.max_value
    THEN << <<field_name, "max_value">> >>
    ELSE <<>>

\* Lines 104-149: validate_field appends at most one error, the first rule broken.
validate_field(field_name, value, rules) ==
    IF ~IsInstance(value, rules.type) THEN << <<field_name, "type">> >>
    ELSE IF value.tag = "str" /\ "min_length" \in DOMAIN rules /\ Len(value.val) < rules.min_length
    THEN << <<field_name, "min_length">> >>
    ELSE IF value.tag = "str" /\ "max_length" \in DOMAIN rules /\ Len(value.val) > rules.max_length
    THEN << <<field_name, "max_length">> >>
    ELSE IF value.tag = "str" /\ "allowed_values" \in DOMAIN rules
            /\ ~InList(value.val, rules.allowed_values)
    THEN << <<field_name, "allowed_values">> >>
    ELSE IF value.tag = "int" /\ "min_value" \in DOMAIN rules /\ value.val < rules.min_value
    THEN << <<field_name, "min_value">> >>
    ELSE IF value.tag = "int" /\ "max_value" \in DOMAIN rules /\ value.val > rules.max_value
    THEN << <<field_name, "max_value">> >>
    ELSE <<>>

\* Lines 157-161 and 164-166: the loops over the two class dicts.
RECURSIVE required_errors(_, _)
required_errors(data, fields) ==
    IF fields = <<>> THEN <<>>
    ELSE (IF fields[1][1] \notin DOMAIN data
          THEN << <<fields[1][1], "missing">> >>
          ELSE validate_field(fields[1][1], data[fields[1][1]], fields[1][2]))
         \o required_errors(data, Tail(fields))

RECURSIVE optional_errors(_, _)
optional_errors(data, fields) ==
    IF fields = <<>> THEN <<>>
    ELSE (IF fields[1][1] \notin DOMAIN data
          THEN <<>>
          ELSE validate_field(fields[1][1], data[fields[1][1]], fields[1][2]))
         \o optional_errors(data, Tail(fields))

\* Python's  value > n : a TypeError for a str or None left operand.
GreaterRaises(value) == ~IsNumber(value)

\* Lines 180-197: _validate_business_rules.  Neither comparison is guarded
\* by a type check, so a non-numeric value raises TypeError.  (The dicts
\* hold no hvhz_zone and no wind_zone, so the two warnings that need one
\* of them are never appended.)
business_rules(data) ==
    LET insulation_none == Get(data, "insulation_type", PyNone) = Str(<<"N","o","n","e">>)
        thickness == Get(data, "insulation_thickness", Num(0))
        height == Get(data, "building_height", Num(0))
        roof_area == Get(data, "roof_area", Num(0))
    IN  IF insulation_none /\ GreaterRaises(thickness) THEN [raised |-> TRUE]
        ELSE IF GreaterRaises(height) THEN [raised |-> TRUE]
        ELSE [ raised |-> FALSE,
               errors |-> IF insulation_none /\ thickness.tag = "int" /\ thickness.val > 0
                          THEN << <<"insulation_thickness", "insulation type is None">> >>
                          ELSE <<>>,
               warnings |-> IF roof_area.tag = "int" /\ roof_area.val > 100000
                            THEN <<"Very large roof area - please verify measurement">>
                            ELSE <<>> ]

KnownFields ==
    {REQUIRED_FIELDS[i][1] : i \in DOMAIN REQUIRED_FIELDS} \cup
    {OPTIONAL_FIELDS[i][1] : i \in DOMAIN OPTIONAL_FIELDS}

\* Lines 151-178: validate_data.  The warnings it returns are the business
\* warnings and one per unknown field (a set has no order: they are kept
\* as the set of unknown fields).
validate_data(data) ==
    LET rules == business_rules(data)
        errors == required_errors(data, REQUIRED_FIELDS) \o optional_errors(data, OPTIONAL_FIELDS)
    IN  IF rules.raised THEN [outcome |-> "raised", exception |-> TypeError]
        ELSE [ outcome |-> "returned",
               is_valid |-> Len(errors \o rules.errors) = 0,
               errors |-> errors \o rules.errors,
               warnings |-> rules.warnings,
               unknown_fields |-> DOMAIN data \ KnownFields ]

----------------------------------------------------------------------------
(* The persistence layer (supabase_client.py).  Every method catches its   *)
(* own exceptions and answers None or False when the database is not       *)
(* connected or the request fails: whether a call succeeds is the caller's *)
(* nondeterministic choice  ok.                                            *)

NoId == "None"
EmptyDb ==
    [ connected |-> TRUE, project |-> FALSE, generation_status |-> <<>>, activities |-> <<>>,
      output |-> FALSE ]

\* Lines 28-37: create_client failed, client is None and is_connected() False.
DisconnectedDb == [EmptyDb EXCEPT !.connected = FALSE]

\* Python's float(v) on a dict value: a number converts, a str converts
\* when it is made of digits, None raises.
Convertible(v) ==
    \/ IsNumber(v)
    \/ v.tag = "str" /\ strip(v.val) # <<>>
          /\ \A i \in DOMAIN strip(v.val) : InList(strip(v.val)[i], Digits)

\* Python's int(v): as float(v), but int(float('nan')) raises ValueError.
IntConvertible(v) == Convertible(v) /\ v # NaN

\* Lines 39-110: create_project.  The record is built inside the try, so a
\* field that does not convert makes the call answer None as well.
create_project(d, ok, takeoff_data) ==
    IF /\ d.connected
       /\ ok
       /\ IntConvertible(Get(takeoff_data, "roof_area", Num(0)))
       /\ IntConvertible(Get(takeoff_data, "building_height", Num(0)))
       /\ Convertible(Get(takeoff_data, "insulation_thickness", Num(2)))
    THEN [id |-> "project-1", db |-> [d EXCEPT !.project = TRUE]]
    ELSE [id |-> NoId, db |-> d]

\* Lines 112-152: create_sow_generation; the record starts as "pending".
create_sow_generation(d, ok) ==
    IF d.connected /\ ok
    THEN [id |-> "generation-1", db |-> [d EXCEPT !.generation_status = <<"pending">>]]
    ELSE [id |-> NoId, db |-> d]

\* Lines 154-192: update_sow_generation_status.
update_sow_generation_status(d, ok, status) ==
    IF d.connected /\ ok THEN [d EXCEPT !.generation_status = Append(@, status)] ELSE d

\* Lines 194-239: log_workflow_activity.
log_workflow_activity(d, ok, activity_type) ==
    IF d.connected /\ ok THEN [d EXCEPT !.activities = Append(@, activity_type)] ELSE d

\* Lines 241-286: create_sow_output.
create_sow_output(d, ok) ==
    IF d.connected /\ ok THEN [d EXCEPT !.output = TRUE] ELSE d

----------------------------------------------------------------------------
(* generate_pdf_summary (generate_sow_summary.py) *)

SummaryRequiredFields ==
    {"project_name", "address", "roof_area", "membrane_type", "fastening_pattern"}

\* Lines 58-62 and 71-74 of calculate_materials: the insulation weight is
\* added to the weight estimate when an insulation type other than 'None'
\* is given.
InsulationWeighed(data) ==
    LET insulation_type == Get(data, "insulation_type", PyNone)
    IN  Truthy(insulation_type) /\ insulation_type # Str(<<"N","o","n","e">>)

\* Lines 171-276: None when a required field is missing; the float()
\* conversions of calculate_materials and the comparison of line 211 raise
\* on a value that is not a number, and its int() conversions (lines 46-56
\* and 74) raise on a NaN fastener count or weight estimate.
generate_pdf_summary(data) ==
    IF ~(SummaryRequiredFields \subseteq DOMAIN data) THEN [outcome |-> "returned", summary |-> NoId]
    ELSE IF \/ ~IntConvertible(data.roof_area)
            \/ ~Convertible(Get(data, "insulation_thickness", Num(2)))
            \/ InsulationWeighed(data) /\ Get(data, "insulation_thickness", Num(2)) = NaN
            \/ data.roof_area.tag # "int"       \* the "," format of line 92
    THEN [outcome |-> "raised", exception |-> ValueError]
    ELSE IF GreaterRaises(Get(data, "building_height", Num(0)))
    THEN [outcome |-> "raised", exception |-> TypeError]
    ELSE [outcome |-> "returned", summary |-> "summary"]

----------------------------------------------------------------------------
(* The orchestrator (sow_orchestrator.py): the steps of                    *)
(* process_takeoff_submission as pure functions of what they read.         *)

\* Lines 191-203: the default the template-selection step falls back to.
DefaultTemplateSelection ==
    [ success |-> FALSE,
      selected_template |->
        [ template_id |-> "T2",
          template_name |-> "T2-Recover-TPO(MA)-cvr-bd-BUR-lwc-steel",
          confidence |-> "low",
          sections |-> <<"project_overview", "scope_of_work", "materials", "installation">> ],
      template_id |-> "T2",
      confidence |-> "low" ]

\* Lines 160-204: _select_template_dynamically.
_select_template_dynamically(data) ==
    LET selection == select_template(data)
    IN  IF selection.outcome = "raised" THEN DefaultTemplateSelection
        ELSE LET validation == validate_template_compatibility(selection.template_id, data)
             IN  IF validation.outcome = "raised" THEN DefaultTemplateSelection
                 ELSE [ success |-> TRUE,
                        selected_template |-> selection.template_info,
                        template_id |-> selection.template_id,
                        confidence |-> selection.template_info.confidence,
                        validation |-> validation ]

\* The selector methods _select_template_dynamically enters, in order.
selector_calls(data) ==
    IF select_template(data).outcome = "raised" THEN <<"select_template">>
    ELSE <<"select_template", "validate_template_compatibility">>

\* Lines 296-337: _validate_takeoff_data; the dict of the except branch
\* has no error_count.
_validate_takeoff_data(data) ==
    LET v == validate_data(data)
    IN  IF v.outcome = "raised"
        THEN [success |-> FALSE, is_valid |-> FALSE, error |-> v.exception]
        ELSE [ success |-> TRUE, is_valid |-> v.is_valid, errors |-> v.errors,
               warnings |-> v.warnings, error_count |-> Len(v.errors) ]

\* Mutant: an incompatible template stops the workflow like invalid data.
validation_failed_or_incompatible(steps) ==
    \/ ~steps["validate"].is_valid
    \/ /\ steps["template_selection"].success
       /\ ~steps["template_selection"].validation.compatible

\* Mutant: the test reads the step's success flag instead of is_valid.
validation_failed_tests_success(steps) == ~steps["validate"].success

\* Line 101: the only test that ends the workflow early.
validation_failed(steps) == ~steps["validate"].is_valid

----------------------------------------------------------------------------
(* process_takeoff_submission, one action per numbered step of its body.   *)
(* Each database call of a step succeeds or fails independently.  The file *)
(* writes of steps 3, 6 and 7 go to directories __init__ has created.      *)

\* The takeoff dicts submitted: values the field validator accepts, values
\* it rejects, a building height on which its business rules raise, and an
\* insulation thickness that passes its range test without being a number.
TakeoffValues ==
    [ project_name      |-> {Str(<<"W","a","r","e","h","o","u","s","e"," ","1","2">>)},
      address           |-> {Str(<<"1","0","0"," ","M","a","i","n"," ","S","t","r","e","e","t">>)},
      roof_area         |-> {Num(5000), Num(50)},
      project_type      |-> {Missing, PyNone, Str(txt.tearoff)},
      membrane_type     |-> {Str(txt.TPO), Str(txt.EPDM), Str(txt.TPO_Fleeceback)},
      fastening_pattern |-> {Str(txt.Mechanically_Attached), Str(txt.Fully_Adhered),
                             Str(txt.Rhino_Bond)},
      deck_type         |-> {Missing, Str(txt.Steel), Str(txt.Lightweight_Concrete),
                             Str(txt.Gypsum)},
      building_height   |-> {Missing, Str(<<"4", "5">>)},
      insulation_type   |-> {Missing, Str(<<"P","o","l","y","i","s","o">>)},
      insulation_thickness |-> {Missing, NaN} ]

TakeoffRecords ==
    { LET vals == [ project_name |-> n, address |-> a, roof_area |-> r, project_type |-> p,
                    membrane_type |-> m, fastening_pattern |-> f, deck_type |-> d,
                    building_height |-> h, insulation_type |-> i,
                    insulation_thickness |-> t ]
      IN  [k \in {x \in DOMAIN vals : vals[x] # Missing} |-> vals[k]] :
        n \in TakeoffValues.project_name, a \in TakeoffValues.address,
        r \in TakeoffValues.roof_area, p \in TakeoffValues.project_type,
        m \in TakeoffValues.membrane_type, f \in TakeoffValues.fastening_pattern,
        d \in TakeoffValues.deck_type, h \in TakeoffValues.building_height,
        i \in TakeoffValues.insulation_type, t \in TakeoffValues.insulation_thickness }

\* Lines 62-63: the first eight characters of a uuid4 and the time of the call.
NewId == <<"3","f","a","8","5","f","6","4">>
Timestamp == <<"2","0","2","5","0","1","1","5","_","1","0","3","0","0","0">>

\* Lines 277, 343 and 445: the file a step writes, in its directory.
takeoff_file(workflow_id, timestamp) ==
    [ dir |-> "takeoff",
      name |-> <<"t","a","k","e","o","f","f","_">> \o workflow_id \o <<"_">> \o timestamp
                 \o <<".","j","s","o","n">> ]
sow_file(workflow_id, timestamp) ==
    [ dir |-> "sow",
      name |-> <<"s","o","w","_","s","u","m","m","a","r","y","_">> \o workflow_id \o <<"_">>
                 \o timestamp \o <<".","j","s","o","n">> ]
pdf_file(workflow_id, timestamp) ==
    [ dir |-> "pdf",
      name |-> <<"s","o","w","_","d","o","c","u","m","e","n","t","_">> \o workflow_id \o <<"_">>
                 \o timestamp \o <<".","p","d","f">> ]

\* Lines 62-76: the result dict and the two locals before the try.
NewWorkflow ==
    [ pc |-> "template_selection",
      workflow_id |-> NewId,
      timestamp |-> Timestamp,
      status |-> "processing",
      steps |-> <<>>,
      project_id |-> NoId,
      generation_id |-> NoId,
      exception |-> NoId,
      calls |-> <<>>,
      files |-> {} ]

InitOrchestrator ==
    /\ template_mapping = InitialTemplateMapping
    /\ template_metadata = InitialTemplateMetadata
    /\ project_data \in TakeoffRecords
    /\ op = "new"
    /\ template_id = NoArg
    /\ filters = NoArg
    /\ result = NoResult
    /\ first_selection = NoResult
    /\ workflow = NewWorkflow
    /\ db = EmptyDb
    /\ request = NoRequest
    /\ disk = NoDisk

selector_vars ==
    <<template_mapping, template_metadata, project_data, op, template_id, filters, result,
      first_selection>>

WithStep(w, name, value) == [w EXCEPT !.steps = (name :> value) @@ @]

\* Mutant: an exception of the selector leaves the step.
TemplateSelection_propagates ==
    /\ workflow.pc = "template_selection"
    /\ workflow' =
          IF _select_template_dynamically(project_data).success
          THEN [WithStep(workflow, "template_selection",
                         _select_template_dynamically(project_data))
                  EXCEPT !.pc = "create_project",
                         !.calls = @ \o selector_calls(project_data)]
          ELSE [workflow EXCEPT !.pc = "except", !.exception = AttributeError,
                                !.calls = @ \o selector_calls(project_data)]
    /\ UNCHANGED <<selector_vars, db, request, disk>>

\* Lines 78-82, step 1.
TemplateSelection ==
    /\ workflow.pc = "template_selection"
    /\ workflow' =
          [WithStep(workflow, "template_selection", _select_template_dynamically(project_data))
             EXCEPT !.pc = "create_project",
                    !.calls = @ \o selector_calls(project_data)]
    /\ UNCHANGED <<selector_vars, db, request, disk>>

\* Mutant: a project that cannot be stored raises out of the step.
CreateProject_raises ==
    /\ workflow.pc = "create_project"
    /\ \E ok, logged \in BOOLEAN :
          LET created == create_project(db, ok, project_data)
          IN  /\ db' = IF created.id # NoId
                        THEN log_workflow_activity(created.db, logged, "project_created")
                        ELSE created.db
              /\ workflow' =
                    IF created.id = NoId
                    THEN [workflow EXCEPT !.pc = "except", !.exception = ValueError,
                                          !.calls = Append(@, "create_project")]
                    ELSE [WithStep(workflow, "create_project",
                                   [success |-> TRUE, project_id |-> created.id])
                            EXCEPT !.pc = "save_takeoff",
                                   !.project_id = created.id,
                                   !.calls = Append(@, "create_project")]
    /\ UNCHANGED <<selector_vars, request, disk>>

\* Lines 84-88 and 206-236, step 2.
CreateProject ==
    /\ workflow.pc = "create_project"
    /\ \E ok, logged \in BOOLEAN :
          LET created == create_project(db, ok, project_data)
          IN  /\ db' = IF created.id # NoId
                        THEN log_workflow_activity(created.db, logged, "project_created")
                        ELSE created.db
              /\ workflow' =
                    [WithStep(workflow, "create_project",
                              [success |-> created.id # NoId, project_id |-> created.id])
                       EXCEPT !.pc = "save_takeoff",
                              !.project_id = created.id,
                              !.calls = Append(@, "create_project")]
    /\ UNCHANGED <<selector_vars, request, disk>>

\* Lines 90-93 and 275-294, step 3.
SaveTakeoff ==
    /\ workflow.pc = "save_takeoff"
    /\ workflow' =
          [WithStep(workflow, "save_takeoff", [success |-> TRUE])
             EXCEPT !.pc = "validate",
                    !.files = @ \cup {"takeoff"},
                    !.calls = Append(@, "save_takeoff")]
    /\ disk' = disk \cup {takeoff_file(workflow.workflow_id, workflow.timestamp)}
    /\ UNCHANGED <<selector_vars, db, request>>

\* Lines 95-108, step 4 and the test that follows it.  The f-string of
\* line 105 reads error_count, which the dict of a validator that raised
\* does not hold: KeyError.
ValidateTakeoff ==
    /\ workflow.pc = "validate"
    /\ \E logged, logged_failure \in BOOLEAN :
          LET step == _validate_takeoff_data(project_data)
              w == [WithStep(workflow, "validate", step)
                      EXCEPT !.calls = Append(@, "validate_data")]
              d == IF workflow.project_id # NoId
                   THEN log_workflow_activity(db, logged,
                            IF step.success THEN "validation_completed" ELSE "validation_error")
                   ELSE db
          IN  IF ~validation_failed(w.steps)
              THEN /\ workflow' = [w EXCEPT !.pc = "create_generation"]
                   /\ db' = d
              ELSE IF workflow.project_id = NoId
              THEN /\ workflow' = [w EXCEPT !.pc = "done", !.status = "validation_failed"]
                   /\ db' = d
              ELSE IF "error_count" \notin DOMAIN step
              THEN /\ workflow' = [w EXCEPT !.pc = "except", !.exception = KeyError]
                   /\ db' = d
              ELSE /\ workflow' = [w EXCEPT !.pc = "done", !.status = "validation_failed"]
                   /\ db' = log_workflow_activity(d, logged_failure, "validation_failed")
    /\ UNCHANGED <<selector_vars, request, disk>>

\* Lines 110-115 and 238-273, step 5: no database call without a project id.
CreateGeneration ==
    /\ workflow.pc = "create_generation"
    /\ \E ok \in BOOLEAN :
          LET created == IF workflow.project_id = NoId
                         THEN [id |-> NoId, db |-> db]
                         ELSE create_sow_generation(db, ok)
          IN  /\ db' = created.db
              /\ workflow' =
                    [WithStep(workflow, "create_generation",
                              [success |-> created.id # NoId, generation_id |-> created.id])
                       EXCEPT !.pc = "generate_sow",
                              !.generation_id = created.id,
                              !.calls = IF workflow.project_id = NoId THEN @
                                        ELSE Append(@, "create_sow_generation")]
    /\ UNCHANGED <<selector_vars, request, disk>>

\* Lines 117-120 and 339-439, step 6.
GenerateSummary ==
    /\ workflow.pc = "generate_sow"
    /\ \E updated, logged_start, logged_end, updated_end \in BOOLEAN :
          LET d1 == IF workflow.generation_id # NoId
                    THEN update_sow_generation_status(db, updated, "processing")
                    ELSE db
              d2 == IF workflow.project_id # NoId
                    THEN log_workflow_activity(d1, logged_start, "sow_generation_started")
                    ELSE d1
              generated == generate_pdf_summary(project_data)
              failed == IF workflow.generation_id # NoId
                        THEN update_sow_generation_status(d2, updated_end, "failed")
                        ELSE d2
              w == [workflow EXCEPT !.pc = "create_pdf",
                                    !.calls = Append(@, "generate_pdf_summary")]
          IN  IF generated.outcome = "raised"
              THEN /\ db' = IF workflow.project_id # NoId
                            THEN log_workflow_activity(failed, logged_end, "sow_generation_error")
                            ELSE failed
                   /\ workflow' = WithStep(w, "generate_sow", [success |-> FALSE])
                   /\ disk' = disk
              ELSE IF generated.summary = NoId
              THEN /\ db' = failed
                   /\ workflow' = WithStep(w, "generate_sow", [success |-> FALSE])
                   /\ disk' = disk
              ELSE /\ db' = IF workflow.project_id # NoId
                            THEN log_workflow_activity(d2, logged_end, "sow_generation_completed")
                            ELSE d2
                   /\ workflow' =
                         [WithStep(w, "generate_sow",
                                   [ success |-> TRUE,
                                     template_used |->
                                       workflow.steps["template_selection"].selected_template.template_id ])
                            EXCEPT !.files = @ \cup {"summary"}]
                   /\ disk' = disk \cup {sow_file(workflow.workflow_id, workflow.timestamp)}
    /\ UNCHANGED <<selector_vars, request>>

\* Lines 122-125 and 441-559, step 7.
CreatePdf ==
    /\ workflow.pc = "create_pdf"
    /\ \E stored, logged \in BOOLEAN :
          /\ db' = IF workflow.project_id # NoId
                    THEN log_workflow_activity(create_sow_output(db, stored), logged, "pdf_created")
                    ELSE db
          /\ workflow' =
                [WithStep(workflow, "create_pdf",
                          [ success |-> TRUE,
                            template_used |->
                              workflow.steps["template_selection"].selected_template.template_id ])
                   EXCEPT !.pc = "complete",
                          !.files = @ \cup {"pdf"},
                          !.calls = Append(@, "create_pdf")]
    /\ disk' = disk \cup {pdf_file(workflow.workflow_id, workflow.timestamp)}
    /\ UNCHANGED <<selector_vars, request>>

\* Lines 127-136, step 8.
Complete ==
    /\ workflow.pc = "complete"
    /\ \E updated, logged \in BOOLEAN :
          /\ db' = IF workflow.generation_id # NoId
                    THEN log_workflow_activity(
                             update_sow_generation_status(db, updated, "completed"),
                             logged, "sow_generation_completed")
                    ELSE db
          /\ workflow' = [workflow EXCEPT !.pc = "done", !.status = "success"]
    /\ UNCHANGED <<selector_vars, request, disk>>

\* Lines 138-156: the except branch of process_takeoff_submission.
HandleException ==
    /\ workflow.pc = "except"
    /\ \E logged, updated \in BOOLEAN :
          LET d1 == IF workflow.project_id # NoId
                    THEN log_workflow_activity(db, logged, "workflow_error")
                    ELSE db
          IN  /\ db' = IF workflow.generation_id # NoId
                        THEN update_sow_generation_status(d1, updated, "failed")
                        ELSE d1
              /\ workflow' = [workflow EXCEPT !.pc = "done", !.status = "error"]
    /\ UNCHANGED <<selector_vars, request, disk>>

NextOrchestrator ==
    \/ TemplateSelection
    \/ CreateProject
    \/ SaveTakeoff
    \/ ValidateTakeoff
    \/ CreateGeneration
    \/ GenerateSummary
    \/ CreatePdf
    \/ Complete
    \/ HandleException

SpecOrchestrator == InitOrchestrator /\ [][NextOrchestrator]_vars

\* The same runs on takeoff dicts that hold every value the field validator
\* allows for membrane_type, fastening_pattern and deck_type (lines 31-44 and
\* 82-86), and for each field one value it does not allow.
AllowedValues(fields, name) ==
    LET rules == (CHOOSE i \in DOMAIN fields : fields[i][1] = name)
    IN  {Str(fields[rules][2].allowed_values[j]) :
            j \in DOMAIN fields[rules][2].allowed_values}

AllowedValueRecords ==
    { LET vals == [ project_name |-> n, address |-> a, roof_area |-> r, project_type |-> p,
                    membrane_type |-> m, fastening_pattern |-> f, deck_type |-> d,
                    building_height |-> h ]
      IN  [k \in {x \in DOMAIN vals : vals[x] # Missing} |-> vals[k]] :
        n \in TakeoffValues.project_name, a \in TakeoffValues.address,
        r \in {Num(5000)},
        h \in TakeoffValues.building_height,
        p \in {Missing, Str(txt.tearoff)},
        m \in AllowedValues(REQUIRED_FIELDS, "membrane_type") \cup {Str(txt.TPO_Fleeceback)},
        f \in AllowedValues(REQUIRED_FIELDS, "fastening_pattern") \cup {Str(txt.Rhino_Bond)},
        d \in AllowedValues(OPTIONAL_FIELDS, "deck_type") \cup {Missing, Str(txt.Gypsum)} }

InitAllowedValues ==
    /\ template_mapping = InitialTemplateMapping
    /\ template_metadata = InitialTemplateMetadata
    /\ project_data \in AllowedValueRecords
    /\ op = "new"
    /\ template_id = NoArg
    /\ filters = NoArg
    /\ result = NoResult
    /\ first_selection = NoResult
    /\ workflow = NewWorkflow
    /\ db = EmptyDb
    /\ request = NoRequest
    /\ disk = NoDisk

SpecAllowedValues == InitAllowedValues /\ [][NextOrchestrator]_vars

----------------------------------------------------------------------------
(* Vocabulary of the orchestrator properties *)

Done == workflow.pc = "done"
Step(name) == workflow.steps[name]
HasStep(name) == name \in DOMAIN workflow.steps

\* Every occurrence of call b in the run so far comes after an occurrence of call a.
Before(a, b) ==
    \A i \in DOMAIN workflow.calls :
        workflow.calls[i] = b => \E j \in 1..(i - 1) : workflow.calls[j] = a

\* The field validator, asked directly about the submitted dict.
ValidatorAccepts ==
    validate_data(project_data).outcome = "returned" /\ validate_data(project_data).is_valid
ValidatorRaises == validate_data(project_data).outcome = "raised"

StepsBeforeGate == {"template_selection", "create_project", "save_takeoff", "validate"}
AllSteps == StepsBeforeGate \cup {"create_generation", "generate_sow", "create_pdf"}

(* C13 - The orchestrator runs field validation before template selection: *)
(* in every run of process_takeoff_submission, select_template is entered  *)
(* only after validate_data has run on the dict and has passed, and the    *)
(* compatibility validation, the rendering of the summary and the storing  *)
(* of the document follow in that order.                                   *)
C13_ValidationBeforeSelection ==
    /\ Before("validate_data", "select_template")
    /\ InList("select_template", workflow.calls) => ValidatorAccepts
    /\ Before("select_template", "validate_template_compatibility")
    /\ Before("validate_template_compatibility", "generate_pdf_summary")
    /\ Before("generate_pdf_summary", "create_pdf")

(* C14 - Persistence failures never abort the workflow: for a takeoff dict *)
(* the field validator accepts, process_takeoff_submission ends with       *)
(* status success, the summary file and the document file written,         *)
(* whichever of the create_project, create_sow_generation,                 *)
(* update_sow_generation_status, log_workflow_activity and                 *)
(* create_sow_output calls fail.                                           *)
(* Stated as the claim states it; the code ends such a run with status     *)
(* success and no summary file when generate_pdf_summary raises on a dict  *)
(* the validator accepted (a NaN insulation thickness).                    *)
C14_PersistenceNeverAborts ==
    (Done /\ ValidatorAccepts) =>
        /\ workflow.status = "success"
        /\ {"summary", "pdf"} \subseteq workflow.files
        /\ Step("generate_sow").success /\ Step("create_pdf").success

\* What does hold for every dict the field validator accepts: the status
\* is success, the document is written, and the summary is written exactly
\* when generate_pdf_summary returns one, whichever persistence calls fail.
PersistenceIndependentOutcome ==
    (Done /\ ValidatorAccepts) =>
        /\ workflow.status = "success"
        /\ "pdf" \in workflow.files /\ Step("create_pdf").success
        /\ Step("generate_sow").success <=> "summary" \in workflow.files
        /\ "summary" \in workflow.files <=>
              generate_pdf_summary(project_data).outcome = "returned"

\* A finished run in which the project was stored and every later
\* persistence call failed.
C14_Witness ==
    /\ Done /\ ValidatorAccepts
    /\ workflow.status = "success"
    /\ workflow.project_id # NoId /\ workflow.generation_id = NoId
    /\ db.project /\ db.activities = <<>> /\ ~db.output /\ db.generation_status = <<>>
    /\ workflow.files = {"takeoff", "summary", "pdf"}

(* C15 - The compatibility report is advisory only: the steps              *)
(* process_takeoff_submission executes and its final status are fixed by   *)
(* the field validator's answer (and, when the validator raises, by        *)
(* whether a project id exists), and are the same for a report with        *)
(* compatible = true and a report with compatible = false.                 *)
C15_CompatibilityAdvisory ==
    (Done /\ Step("template_selection").success
          /\ Step("template_selection").validation.compatible \in BOOLEAN) =>
        /\ workflow.status =
              IF ValidatorAccepts THEN "success"
              ELSE IF ValidatorRaises /\ workflow.project_id # NoId THEN "error"
              ELSE "validation_failed"
        /\ DOMAIN workflow.steps = IF ValidatorAccepts THEN AllSteps ELSE StepsBeforeGate

\* A run that went through every step to success although the report on
\* the selected template says it does not fit the project.
C15_Witness ==
    /\ Done /\ Step("template_selection").success
    /\ ~Step("template_selection").validation.compatible
    /\ Step("template_selection").validation.errors # <<>>
    /\ workflow.status = "success"
    /\ DOMAIN workflow.steps = AllSteps
    /\ {"summary", "pdf"} \subseteq workflow.files

\* The field validator returned, and found errors.
ValidatorRejects ==
    validate_data(project_data).outcome = "returned" /\ ~validate_data(project_data).is_valid

(* C21 - When the field validator reports the takeoff dict invalid,        *)
(* process_takeoff_submission stops after the validate step with status    *)
(* validation_failed: no generation record is created, no generation       *)
(* status is written, and neither the summary nor the document file is     *)
(* written at any point of the run, with and without a project record.     *)
C21_InvalidDataStopsWorkflow ==
    ValidatorRejects =>
        /\ workflow.generation_id = NoId /\ db.generation_status = <<>>
        /\ workflow.files \subseteq {"takeoff"}
        /\ ~db.output
        /\ \A c \in {"create_sow_generation", "generate_pdf_summary", "create_pdf"} :
              ~InList(c, workflow.calls)
        /\ workflow.pc \notin {"create_generation", "generate_sow", "create_pdf", "complete",
                               "except"}
        /\ HasStep("validate") =>
              /\ Done /\ workflow.status = "validation_failed"
              /\ DOMAIN workflow.steps = StepsBeforeGate
              /\ ~Step("validate").is_valid /\ Step("validate").error_count > 0

\* A rejected dict whose project record was stored and whose failure was logged.
C21_Witness ==
    /\ ValidatorRejects /\ Done
    /\ workflow.status = "validation_failed"
    /\ workflow.project_id # NoId /\ db.project
    /\ db.activities = <<"project_created", "validation_completed", "validation_failed">>
    /\ workflow.files = {"takeoff"}

\* select_template, or the compatibility validation after it, raises on the dict.
SelectorRaises ==
    \/ select_template(project_data).outcome = "raised"
    \/ validate_template_compatibility(select_template(project_data).template_id,
                                       project_data).outcome = "raised"

(* C22 - When select_template or validate_template_compatibility raises    *)
(* inside the orchestrator, the template-selection step reports success =  *)
(* false with template T2 and confidence low, the exception does not reach *)
(* process_takeoff_submission (the next step is create_project, the status *)
(* error is not caused by it) and the later steps use T2.                  *)
C22_SelectionFailureFallsBackToT2 ==
    (SelectorRaises /\ workflow.pc # "template_selection") =>
        /\ workflow.exception # AttributeError
        /\ HasStep("template_selection")
        /\ ~Step("template_selection").success
        /\ Step("template_selection").template_id = "T2"
        /\ Step("template_selection").confidence = "low"
        /\ Step("template_selection").selected_template.template_id = "T2"
        /\ workflow.pc # "create_project" => HasStep("create_project")
        /\ (Done /\ ~ValidatorRaises) =>
              workflow.status = IF ValidatorAccepts THEN "success" ELSE "validation_failed"
        /\ (HasStep("generate_sow") /\ Step("generate_sow").success) =>
              Step("generate_sow").template_used = "T2"
        /\ HasStep("create_pdf") => Step("create_pdf").template_used = "T2"

\* project_type None made select_template raise; the run went on to success on T2.
C22_Witness ==
    /\ SelectorRaises /\ Done
    /\ ~Step("template_selection").success
    /\ workflow.status = "success"
    /\ Step("generate_sow").success /\ Step("generate_sow").template_used = "T2"
    /\ Step("create_pdf").template_used = "T2"
    /\ {"summary", "pdf"} \subseteq workflow.files

----------------------------------------------------------------------------
(* C24 - Selection and compatibility agree: for every project-data dict on *)
(* which select_template returns confidence high,                          *)
(* validate_template_compatibility of the returned template id on the same *)
(* dict returns compatible = true and an empty errors list.                *)
C24_HighConfidenceIsCompatible ==
    (Selected /\ result.template_info.confidence = "high") =>
        LET report == validate_template_compatibility(result.template_id, project_data)
        IN  /\ report.outcome = "returned"
            /\ report.compatible
            /\ report.errors = <<>>

\* A wildcard-deck hit: T2 selected with confidence high for a wood deck,
\* which the report on T2 answers with a warning and no error.
C24_Witness ==
    /\ Selected /\ result.template_info.confidence = "high"
    /\ result.template_id = "T2" /\ Normalized.deck_type = "wood"
    /\ validate_template_compatibility("T2", project_data).compatible
    /\ validate_template_compatibility("T2", project_data).warnings # <<>>

(* C25 - Every lookup-table entry agrees with the catalog record of the    *)
(* template it names: the key's work type is the template's work_type, its *)
(* membrane type is in membrane_types, its attachment method is in         *)
(* attachment_methods, and its deck type, when present, is in deck_types.  *)
(* Stated as the claim states it; the entry (recover, TPO, rhino_bond,     *)
(* steel) names T5, whose deck_types hold structural_standing_seam only.   *)
EntryAgrees(k) ==
    LET metadata == template_metadata[template_mapping[k][1]]
    IN  /\ k[1] = metadata.work_type
        /\ InList(k[2], metadata.membrane_types)
        /\ InList(k[3], metadata.attachment_methods)
        /\ k[4] # NoDeck => InList(k[4], metadata.deck_types)

C25_TableAgreesWithCatalog ==
    \A k \in DOMAIN template_mapping : EntryAgrees(k)

\* The entries that do agree: all but the Rhino Bond one.
TableAgreesButRhinoBond ==
    \A k \in DOMAIN template_mapping :
        EntryAgrees(k) <=> k # <<"recover", "TPO", "rhino_bond", "steel">>

(* C29 - When the deck type is missing, empty or unrecognized, the key     *)
(* with the absent deck is itself the exact key: for (recover, TPO,        *)
(* mechanically attached) and (tearoff, TPO, mechanically attached)        *)
(* select_template returns the "deck type to be determined" entry with     *)
(* confidence high and no notes.  The deck-verification note is returned   *)
(* exactly when the normalized deck type is a specific token without an    *)
(* entry of its own and the wildcard-deck entry exists.                    *)
AbsentDeckInput ==
    \/ "deck_type" \notin DOMAIN project_data
    \/ project_data.deck_type \in {EmptyStr, PyNone, Str(txt.bamboo), Str(txt.Unknown_Deck_Material)}

C29_AbsentDeckIsExactKey ==
    Selected =>
        /\ AbsentDeckInput => Normalized.deck_type = NoDeck /\ LookupKey = FallbackKey
        /\ (/\ Normalized.deck_type = NoDeck
            /\ Normalized.membrane_type = "TPO"
            /\ Normalized.attachment_method = "mechanically_attached") =>
              /\ result.template_info.description =
                    IF Normalized.work_type = "recover"
                    THEN "Standard TPO recover (deck type to be determined)"
                    ELSE "Standard TPO tearoff (deck type to be determined)"
              /\ result.template_id = IF Normalized.work_type = "recover" THEN "T2" ELSE "T6"
              /\ result.template_info.confidence = "high"
              /\ result.template_info.notes = <<>>
        /\ InList("Deck type needs verification for optimal template selection",
                  result.template_info.notes) <=>
              /\ Normalized.deck_type # NoDeck
              /\ LookupKey \notin DOMAIN template_mapping
              /\ FallbackKey \in DOMAIN template_mapping

\* A tearoff TPO project with no deck_type key at all.
C29_Witness ==
    /\ Selected
    /\ "deck_type" \notin DOMAIN project_data
    /\ LookupKey = <<"tearoff", "TPO", "mechanically_attached", NoDeck>>
    /\ result.template_id = "T6"
    /\ result.template_info.description = "Standard TPO tearoff (deck type to be determined)"
    /\ result.template_info.notes = <<>>

----------------------------------------------------------------------------
(* C26 - The statuses written to the generation record during one run of   *)
(* process_takeoff_submission come in the order pending, processing, then  *)
(* one of completed and failed: a record set to failed is never set to     *)
(* completed later in the run.  (A status whose write fails is not         *)
(* written, so a status may be absent from the record's history.)          *)
(* Stated as the claim states it; step 8 writes completed after step 6     *)
(* wrote failed.                                                           *)
StatusRank(status) ==
    IF status = "pending" THEN 1 ELSE IF status = "processing" THEN 2 ELSE 3

C26_FailedIsFinal ==
    \A i, j \in DOMAIN db.generation_status :
        i < j => StatusRank(db.generation_status[i]) < StatusRank(db.generation_status[j])

\* What the record's history is in the runs where the summary step fails
\* and every status write succeeds.
FailedThenCompleted ==
    (/\ Done /\ workflow.generation_id # NoId
     /\ ~Step("generate_sow").success
     /\ Len(db.generation_status) = 4) =>
        /\ db.generation_status = <<"pending", "processing", "failed", "completed">>
        /\ workflow.status = "success"

(* C27 - The final status of process_takeoff_submission does not depend on *)
(* the persistence layer: on any one takeoff dict, the runs in which the   *)
(* project record is created and the runs in which it is not end with the  *)
(* same status, which is therefore the status of the run without a project *)
(* record, also when the field validator raises.                           *)
(* Stated as the claim states it; when the validator raises, the run with  *)
(* a project record ends with status error, the run without one with       *)
(* status validation_failed.                                               *)
StatusWithoutProject ==
    IF _validate_takeoff_data(project_data).is_valid THEN "success" ELSE "validation_failed"

C27_StatusIndependentOfPersistence ==
    Done => workflow.status = StatusWithoutProject

\* The runs whose status does depend on the project record: exactly those
\* on which the validator raised.
StatusDependsOnlyWhenValidatorRaises ==
    Done =>
        /\ workflow.project_id = NoId => workflow.status = StatusWithoutProject
        /\ ~ValidatorRaises => workflow.status = StatusWithoutProject
        /\ (ValidatorRaises /\ workflow.project_id # NoId) =>
              workflow.status = "error" /\ workflow.exception = KeyError

----------------------------------------------------------------------------
(* api_server.py: POST /api/submit-takeoff and GET /api/workflow/{id}.     *)
(* The endpoints are coroutines that call the orchestrator without         *)
(* awaiting, so the server handles one request at a time.  The server of   *)
(* this part runs without a database connection; the outcomes of the       *)
(* database calls are the subject of SpecOrchestrator.                     *)

\* Lines 46-64: the fields of TakeoffFormData that the orchestrator, the
\* validator or the selector read.  A regex is the tuple of its alternatives.
TakeoffFormData == <<
    <<"project_name", [type |-> "str", required |-> TRUE, min_length |-> 1, max_length |-> 100]>>,
    <<"address", [type |-> "str", required |-> TRUE, min_length |-> 10, max_length |-> 200]>>,
    <<"roof_area", [type |-> "float", required |-> TRUE, gt |-> 0, le |-> 1000000]>>,
    <<"membrane_type",
      [type |-> "str", required |-> TRUE,
       regex |-> <<<<"T","P","O">>,
                   <<"E","P","D","M">>,
                   <<"P","V","C">>,
                   <<"M","o","d","i","f","i","e","d"," ","B","i","t","u","m","e","n">>,
                   <<"B","u","i","l","t","-","U","p">>>>]>>,
    <<"fastening_pattern",
      [type |-> "str", required |-> TRUE,
       regex |-> <<<<"M","e","c","h","a","n","i","c","a","l","l","y"," ","A","t","t","a","c","h","e","d">>,
                   <<"F","u","l","l","y"," ","A","d","h","e","r","e","d">>,
                   <<"B","a","l","l","a","s","t","e","d">>>>]>>,
    <<"insulation_type",
      [type |-> "str", required |-> FALSE,
       regex |-> <<<<"P","o","l","y","i","s","o">>, <<"X","P","S">>, <<"E","P","S">>,
                   <<"M","i","n","e","r","a","l"," ","W","o","o","l">>,
                   <<"N","o","n","e">>>>]>>,
    <<"insulation_thickness", [type |-> "float", required |-> FALSE, ge |-> 0, le |-> 12]>>,
    <<"deck_type",
      [type |-> "str", required |-> FALSE,
       regex |-> <<<<"S","t","e","e","l">>,
                   <<"C","o","n","c","r","e","t","e">>,
                   <<"W","o","o","d">>,
                   <<"L","i","g","h","t","w","e","i","g","h","t"," ","C","o","n","c","r","e","t","e">>>>]>>,
    <<"building_height", [type |-> "float", required |-> FALSE, ge |-> 8, le |-> 500]>> >>

FormFields == {TakeoffFormData[i][1] : i \in DOMAIN TakeoffFormData}

\* Field(regex="^(a|b)$") is tested with re.match, whose "$" matches at the
\* end of the text and before a newline that ends it.
RegexMatches(alternatives, text) ==
    \E i \in DOMAIN alternatives :
        text = alternatives[i] \/ text = alternatives[i] \o <<"\n">>

\* One field of the form model against the value the body gives for it
\* (str fields are given as str, float fields as numbers, or null).
FieldAdmits(rules, value) ==
    IF value = PyNone THEN ~rules.required
    ELSE IF rules.type = "str"
    THEN /\ value.tag = "str"
         /\ "min_length" \in DOMAIN rules => Len(value.val) >= rules.min_length
         /\ "max_length" \in DOMAIN rules => Len(value.val) <= rules.max_length
         /\ "regex" \in DOMAIN rules => RegexMatches(rules.regex, value.val)
    ELSE /\ value.tag = "int"
         /\ "gt" \in DOMAIN rules => value.val > rules.gt
         /\ "ge" \in DOMAIN rules => value.val >= rules.ge
         /\ "le" \in DOMAIN rules => value.val <= rules.le

\* The body parses into TakeoffFormData (otherwise FastAPI answers 422
\* before submit_takeoff is called).  Keys the model does not declare are
\* ignored.
FormAdmits(body) ==
    \A i \in DOMAIN TakeoffFormData :
        LET name == TakeoffFormData[i][1]
            rules == TakeoffFormData[i][2]
        IN  IF name \in DOMAIN body THEN FieldAdmits(rules, body[name]) ELSE ~rules.required

\* Mutant: the form model keeps the keys it does not declare.
form_dict_with_extra_keys(body) ==
    [k \in {f \in DOMAIN body : body[f] # PyNone} |-> body[k]]

\* Line 135: form_data.dict(exclude_none=True).
form_dict(body) ==
    [k \in {f \in FormFields \cap DOMAIN body : body[f] # PyNone} |-> body[k]]

\* The alternatives of a field's regex, as values of a body.
RegexValues(name) ==
    LET i == CHOOSE j \in DOMAIN TakeoffFormData : TakeoffFormData[j][1] = name
    IN  {Str(TakeoffFormData[i][2].regex[k]) : k \in DOMAIN TakeoffFormData[i][2].regex}

\* JSON bodies of POST /api/submit-takeoff: every value the form admits for
\* membrane_type, fastening_pattern and deck_type, values it does not admit,
\* a project_type key, which the form does not declare, and a null deck.
FormBodies ==
    { LET vals == [ project_name |-> n, address |-> a, roof_area |-> r, project_type |-> p,
                    membrane_type |-> m, fastening_pattern |-> f, deck_type |-> d ]
      IN  [k \in {x \in DOMAIN vals : vals[x] # Missing} |-> vals[k]] :
        n \in TakeoffValues.project_name, a \in TakeoffValues.address,
        r \in {Num(5000), Num(0)},
        p \in {Missing, Str(txt.tearoff)},
        m \in RegexValues("membrane_type") \cup {Str(txt.TPO_newline), Str(txt.TPO_Fleeceback)},
        f \in RegexValues("fastening_pattern") \cup {Str(txt.Rhino_Bond)},
        d \in RegexValues("deck_type") \cup {Missing, PyNone, Str(txt.Gypsum)} }

\* Workflow ids asked for: the one of the submission, the one of a workflow
\* that ran before the server started, and one that never ran.
OldId == <<"7","c","1","e","0","b","9","a">>
UnknownId == <<"0","0","0","0","0","0","0","0">>
OldTimestamp == <<"2","0","2","4","1","2","0","1","_","0","9","0","0","0","0">>
QueriedIds == {NewId, OldId, UnknownId}

OldFiles ==
    {takeoff_file(OldId, OldTimestamp), sow_file(OldId, OldTimestamp),
     pdf_file(OldId, OldTimestamp)}

\* sow_orchestrator.py lines 561-584: glob("*" + workflow_id + "*") in the
\* three directories.
get_workflow_status(files, workflow_id) ==
    LET found(dir) == {f.name : f \in {g \in files : g.dir = dir /\ Contains(g.name, workflow_id)}}
    IN  IF found("takeoff") = {} /\ found("sow") = {} /\ found("pdf") = {}
        THEN PyNone
        ELSE [ workflow_id |-> workflow_id,
               files_found |-> [takeoff |-> found("takeoff"), sow |-> found("sow"),
                                pdf |-> found("pdf")],
               status |-> IF found("pdf") # {} THEN "completed" ELSE "in_progress" ]

\* str(e) of the HTTPException raised at line 227: empty in the releases of
\* Starlette whose HTTPException defines no __str__, status and detail in
\* the later ones.
ErrorRetrievingWorkflow ==
    {"Error retrieving workflow: ", "Error retrieving workflow: 404: Workflow not found"}

InitApi ==
    /\ template_mapping = InitialTemplateMapping
    /\ template_metadata = InitialTemplateMetadata
    /\ project_data = EmptyDict
    /\ op = "new"
    /\ template_id = NoArg
    /\ filters = NoArg
    /\ result = NoResult
    /\ first_selection = NoResult
    /\ workflow = NoWorkflow
    /\ db = DisconnectedDb
    /\ request = NoRequest
    /\ disk \in {NoDisk, OldFiles}

\* Lines 121-138: a body the form does not admit is answered 422 by FastAPI;
\* an admitted one enters process_takeoff_submission.  One submission is
\* followed through the orchestrator.
SubmitTakeoff ==
    /\ workflow = NoWorkflow
    /\ \E body \in FormBodies :
          IF FormAdmits(body)
          THEN /\ project_data' = form_dict(body)
               /\ workflow' = NewWorkflow
               /\ request' = [ endpoint |-> "submit_takeoff", state |-> "handling",
                               status_code |-> 0, body |-> body ]
          ELSE /\ request' = [ endpoint |-> "submit_takeoff", state |-> "answered",
                               status_code |-> 422, body |-> body ]
               /\ UNCHANGED <<project_data, workflow>>
    /\ UNCHANGED <<template_mapping, template_metadata, op, template_id, filters, result,
                   first_selection, db, disk>>

\* Lines 140-184: the WorkflowResponse built from the orchestrator's result.
RespondSubmitTakeoff ==
    /\ request.endpoint = "submit_takeoff"
    /\ request.state = "handling"
    /\ workflow.pc = "done"
    /\ request' =
          [ endpoint |-> "submit_takeoff", state |-> "answered", status_code |-> 200,
            body |-> request.body,
            content |->
              [ workflow_id |-> workflow.workflow_id,
                project_id |-> workflow.project_id,
                generation_id |-> workflow.generation_id,
                database_connected |-> db.connected,
                status |-> workflow.status,
                validation_passed |-> workflow.steps["validate"].is_valid,
                download_url |->
                    IF workflow.status = "success" /\ workflow.steps["create_pdf"].success
                    THEN pdf_file(workflow.workflow_id, workflow.timestamp).name
                    ELSE NoId ] ]
    /\ UNCHANGED <<selector_vars, workflow, db, disk>>

\* Lines 221-245: the HTTPException of line 227 is raised inside the try
\* and is an Exception, so the handler of line 244 catches it.
GetWorkflowStatus ==
    /\ workflow.pc \in {"none", "done"}
    /\ request.state # "handling"
    /\ \E workflow_id \in QueriedIds, detail \in ErrorRetrievingWorkflow :
          LET file_status == get_workflow_status(disk, workflow_id)
          IN  request' =
                IF file_status = PyNone
                THEN [ endpoint |-> "workflow_status", state |-> "answered",
                       workflow_id |-> workflow_id, status_code |-> 500,
                       content |-> [detail |-> detail] ]
                ELSE [ endpoint |-> "workflow_status", state |-> "answered",
                       workflow_id |-> workflow_id, status_code |-> 200,
                       content |-> file_status ]
    /\ UNCHANGED <<selector_vars, workflow, db, disk>>

\* The except branch of process_takeoff_submission is not entered on a dict
\* that came through the form (FormNeverRaises), so HandleException is not
\* among the steps.
NextApi ==
    \/ SubmitTakeoff
    \/ TemplateSelection
    \/ CreateProject
    \/ SaveTakeoff
    \/ ValidateTakeoff
    \/ CreateGeneration
    \/ GenerateSummary
    \/ CreatePdf
    \/ Complete
    \/ RespondSubmitTakeoff
    \/ GetWorkflowStatus

SpecApi == InitApi /\ [][NextApi]_vars

FormNeverRaises == workflow.pc # "except"
----------------------------------------------------------------------------
(* C28 - In every run of process_takeoff_submission that ends with status  *)
(* success the selected template id is T2, T6 or T7: no combination of     *)
(* values the field validator accepts for membrane_type, fastening_pattern *)
(* and deck_type normalizes to a key that selects T4, T5 or T8.            *)
C28_SuccessSelectsT2T6T7 ==
    /\ ValidatorAccepts => select_template(project_data).template_id \in {"T2", "T6", "T7"}
    /\ (Done /\ workflow.status = "success") =>
          /\ Step("template_selection").template_id \in {"T2", "T6", "T7"}
          /\ Step("template_selection").selected_template.template_id =
                Step("template_selection").template_id
          /\ Step("create_pdf").template_used = Step("template_selection").template_id

\* A tearoff on lightweight concrete: accepted by the validator, T7, success.
C28_Witness ==
    /\ Done /\ workflow.status = "success"
    /\ Step("template_selection").template_id = "T7"
    /\ project_data.deck_type = Str(txt.Lightweight_Concrete)
    /\ project_data.project_type = Str(txt.tearoff)

\* The runs that select T4, T5 or T8 all end with status validation_failed.
OtherTemplatesAreRejected ==
    (Done /\ Step("template_selection").template_id \in {"T4", "T5", "T8"}) =>
        workflow.status = "validation_failed"

----------------------------------------------------------------------------
(* C23 - GET /api/workflow/{workflow_id} for a workflow id that has no     *)
(* takeoff, summary or document file is answered with HTTP 404 and the     *)
(* detail "Workflow not found".                                            *)
(* Stated as the claim states it; the code answers 500, because the        *)
(* HTTPException(404) is raised inside the try whose except Exception      *)
(* turns every exception into HTTPException(500).                          *)
C23_UnknownWorkflowIs404 ==
    (/\ request.endpoint = "workflow_status"
     /\ get_workflow_status(disk, request.workflow_id) = PyNone) =>
        /\ request.status_code = 404
        /\ request.content.detail = "Workflow not found"

\* What the code does: a workflow without files is answered 500, one with
\* files 200 with its status.
UnknownWorkflowIs500 ==
    request.endpoint = "workflow_status" =>
        IF get_workflow_status(disk, request.workflow_id) = PyNone
        THEN /\ request.status_code = 500
             /\ request.content.detail \in ErrorRetrievingWorkflow
        ELSE /\ request.status_code = 200
             /\ request.content.status \in {"completed", "in_progress"}

----------------------------------------------------------------------------
(* C30 - Every submission that POST /api/submit-takeoff accepts selects    *)
(* template T2: the dict handed to the orchestrator has no project_type    *)
(* key, so the work type is recover, and the membrane, fastening and deck  *)
(* values the form admits select T2 under it.                              *)
C30_AcceptedSubmissionSelectsT2 ==
    workflow # NoWorkflow =>
        /\ "project_type" \notin DOMAIN project_data
        /\ select_template(project_data).template_id = "T2"
        /\ HasStep("template_selection") =>
              /\ Step("template_selection").template_id = "T2"
              /\ Step("template_selection").selected_template.template_id = "T2"
        /\ HasStep("create_pdf") => Step("create_pdf").template_used = "T2"

\* A body with project_type tearoff on lightweight concrete (T7 if the key
\* were read) is answered 200 with status success, on T2.
C30_Witness ==
    /\ request.endpoint = "submit_takeoff"
    /\ request.status_code = 200
    /\ request.content.status = "success"
    /\ {"project_type", "deck_type"} \subseteq DOMAIN request.body
    /\ request.body.project_type = Str(txt.tearoff)
    /\ request.body.deck_type = Str(txt.Lightweight_Concrete)
    /\ Step("template_selection").template_id = "T2"

\* A query for a workflow that never ran, answered by the code with 500.
UnknownWorkflowQueried ==
    /\ request.endpoint = "workflow_status"
    /\ request.workflow_id = UnknownId
    /\ disk # NoDisk
    /\ request.status_code = 500

\* A body whose membrane_type ends with a newline passes the form, selects
\* T2 and is rejected by the field validator.
NewlinePassesForm ==
    /\ request.endpoint = "submit_takeoff"
    /\ request.status_code = 200
    /\ request.body.membrane_type = Str(txt.TPO_newline)
    /\ request.content.status = "validation_failed"

====
